---- MODULE Spec2Model ----
(***************************************************************************)
(* State-machine model of the SMPP server: the session registry and the    *)
(* bind state machine of smpp/server.py, the submit_sm dispatcher of       *)
(* smpp/messaging.py and the round-robin master of smpp/master.py.         *)
(*                                                                         *)
(* One Connection object is one element of Conns.  Its handler coroutine   *)
(* (Server._on_client_connected) is at one of the positions                *)
(*   "read"    awaiting the next PDU in Connection.read                    *)
(*   "auth"    awaiting provider.authenticate in Server.do_bind            *)
(*   "deliver" awaiting provider.deliver in Dispatcher._store_and_forward  *)
(*   "fanout"  awaiting asyncio.gather in Connection.send_to_rcv           *)
(*   "crashed" ended by an exception that the handler does not catch       *)
(* Everything a handler does between two awaits is one action.             *)
(*                                                                         *)
(* Specifications: Spec (binds and the registry), SpecMsg (submit_sm, the  *)
(* retry loop and the receipts), SpecCluster (workers behind the master),  *)
(* SpecSeq (sequence numbers over longer exchanges), SpecLink              *)
(* (enquire_link, frames that do not decode, errors of the socket),        *)
(* SpecCodec (pack and unpack of smpp/parse.py over bytes), SpecWire (the  *)
(* bytes that interleaved sends put on one socket) and SpecRelay (the two  *)
(* forwarding loops of the master, under weak fairness of the loops),      *)
(* SpecCred (binds with several passwords and submissions), SpecStop       *)
(* (Server.stop), SpecFan (the receipt fan-out with lost receivers),       *)
(* SpecSend (Connection.send over pack) and SpecCounter (last_seqnum at    *)
(* the full width of the header field).                                    *)
(***************************************************************************)
EXTENDS Integers, Sequences, FiniteSets, TLC

\* ------------------------------------------------------------------ bounds
MaxConns == 3      \* connections that are ever accepted
MaxPdus == 3       \* request PDUs read over all connections; one more where the
                   \* sequence numbers are followed
MaxReqs == 2       \* request PDUs read on the first connection; one fewer on the others
                   \* (one more on each where the sequence numbers are followed)
MaxTime == 60      \* the clock stops advancing here
TickSeconds == 60  \* seconds that pass in one step of the clock

\* ------------------------------------------------------- program constants
WORKERS_COUNT == 2
DEFAULT_VALIDITY_PERIOD == 60
COMMAND_STATUS_ESME_ROK == 0
COMMAND_STATUS_ESME_RINVBNDSTS == 4
COMMAND_STATUS_ESME_RINVPASWD == 14
COMMAND_STATUS_ESME_RUNKNOWNERR == 255

\* Constants that smpp/messaging.py reads from smpp.parse but that the parse
\* module at hand does not define; values as in SMPP v3.4.
ESM_CLASS_MODE_MASK == 3
ESM_CLASS_MODE_DEFAULT == 0
ESM_CLASS_MODE_STORE_AND_FORWARD == 3
ESM_CLASS_RECEIPT_STORE_AND_FORWARD == 4
REGDEL_SMSC_RECEIPT_MASK == 3
REGDEL_SMSC_RECEIPT_REQUIRED == 1
RECEIPT_DELIVERED == "DELIVRD"
RECEIPT_EXPIRED == "EXPIRED"
RECEIPT_UNDELIVERABLE == "UNDELIV"
RECEIPT_REJECTED == "REJECTD"
RECEIPT_UNKNOWN == "UNKNOWN"

\* ------------------------------------------------------------ value sets
Conns == 1..MaxConns
Sids == {"mtc", "nomtc"}
Passwords == {"pwd"}
MessageIdSeq == <<"0000000a", "0000000b">>
MessageIds == {MessageIdSeq[i] : i \in DOMAIN MessageIdSeq}
None == "None"
NoPdu == [command |-> "none"]

\* class Mode
Mode == {"UNBOUND", "RECEIVER", "TRANSMITTER", "TRANSCEIVER"}

\* DeliveryStatus as smpp/messaging.py and the tests use it.
DeliveryStatus ==
  {"OK", "GENERIC_ERROR", "AUTH_FAILED", "NO_BALANCE", "UNDELIVERABLE", "TRY_LATER"}

\* DeliveryStatus.should_retry
should_retry(status) == status \in {"GENERIC_ERROR", "TRY_LATER"}

BindCommands == {"bind_receiver", "bind_transmitter", "bind_transceiver"}

\* x & m for naturals, bit by bit.
RECURSIVE BitAnd(_, _)
BitAnd(x, m) ==
  IF x = 0 \/ m = 0 THEN 0
  ELSE 2 * BitAnd(x \div 2, m \div 2) + (IF x % 2 = 1 /\ m % 2 = 1 THEN 1 ELSE 0)

VARIABLES
  inputs,             \* what the clients and the provider may feed the server
  workers_count,      \* MasterServer.workers_count; 1 for a stand-alone Server
  incoming_queue,     \* per worker: does it publish receipts to the bus
  sub_incoming,       \* per worker: the publishers whose bus it subscribes to
  last_used_worker,   \* MasterServer._last_used_worker
  st,                 \* per connection: "idle", "open" or "closed" socket
  worker,             \* per connection: the Server that owns it
  mode,               \* Connection.mode
  client,             \* Connection.client, as the Client's system_id, or None
  last_seqnum,        \* Connection.last_seqnum; where it is followed at full width,
                      \* its two 16-bit halves
  pc,                 \* position of the connection's handler
  cur,                \* the request the handler is in the middle of; in the loop of
                      \* _store_and_forward, with what provider.deliver returned last
  pending,            \* send_new_seqnum tasks created by send_to_rcv, not yet run
  clients,            \* Server._clients, per worker
  sent,               \* per open connection: the PDUs written to it, in order
  queue,              \* receipt bus: messages in flight, per publisher and subscriber
  handled,            \* receipt bus: the messages the subscribers have handled, each with
                      \* the modes and system_ids of the connections at that time
  now,                \* wall clock, seconds
  nreq,               \* per connection: requests read so far
  deliver_log,        \* the requests provider.deliver has been called for
  issued,             \* the message ids Dispatcher.new_message_id has returned
  authed,             \* per connection: what provider.authenticate returned last
  last_read,          \* per connection: command and sequence_number of the last request read
  outcome,            \* per connection: how its last submit_sm left _store_and_forward,
                      \* and the modes and system_ids of the connections at that time
  rx,                 \* codec: the frame that was received, << >> if none
  obj,                \* codec: what parse.unpack_pdu made of rx, or the PDU to send
  tx,                 \* codec: what the calls of pack() returned or raised, in order
  stream,             \* per connection: what the calls of StreamWriter.write put on
                      \* its transport, in order
  writing,            \* the calls of Connection.send that have not returned, each with
                      \* what it has still to write
  relay,              \* per connection: the sockets and the two forwarding loops of
                      \* MasterServer._dispatch_connection
  stopped,            \* the callback of Server.stop has run
  bound_with          \* per connection: the password of the bind request that bound
                      \* it last, None if none did

vars == <<inputs, workers_count, incoming_queue, sub_incoming, last_used_worker, st, worker, mode, client,
          last_seqnum, pc, cur, pending, clients, sent, queue, handled, now, nreq,
          deliver_log, issued, authed, last_read, outcome, rx, obj, tx, stream, writing,
          relay, stopped, bound_with>>

Workers == 0..(workers_count - 1)

config == <<inputs, workers_count, incoming_queue, sub_incoming>>

bus == <<queue, handled>>

\* The state of the parts that are modelled apart from the handlers: the
\* codec, the writes on the transports and the relay of the master.
apart == <<rx, obj, tx, stream, writing, relay, stopped, bound_with>>

\* ------------------------------------------------------------------- PDUs
NoReceipt == [id |-> "", stat |-> "", dlvrd |-> 0, err |-> 0]

\* A PDU the server writes.  req is not on the wire: it names the request
\* whose handling produced the PDU, as <<connection, index on the connection>>.
Pdu(command, status, seq, req) ==
  [command |-> command, command_status |-> status, sequence_number |-> seq,
   system_id |-> "", message_id |-> "", esm_class |-> 0, receipt |-> NoReceipt,
   req |-> req]

\* What is kept of the last request read: its command, its sequence_number
\* and, of a submit_sm, its esm_class.
Header(command, seq) == [command |-> command, sequence_number |-> seq, esm_class |-> 0]

\* A request as Connection.read returns it.
Request(command, seq, sid, pwd, esm, regdel, vp, req) ==
  [command |-> command, sequence_number |-> seq, system_id |-> sid, password |-> pwd,
   esm_class |-> esm, registered_delivery |-> regdel, validity_period |-> vp,
   req |-> req]

\* What the clients send and what the provider answers.
EsmClasses == {0, 1, 3}
RegDels == {0, 225, 226}
ValidityPeriods == {"", "000000010000000R"}
AnyBind == BindCommands \X Sids

\* The number of requests each client sends at most.
Reqs == [c \in Conns |-> IF c = 1 THEN MaxReqs ELSE MaxReqs - 1]

\* All connections but one: any client binds as anything, and the provider
\* lets it or not.  No client submits a message.
BindInputs ==
  [conns |-> 1..(MaxConns - 1), reqs |-> Reqs, pdus |-> MaxPdus,
   binds |-> [c \in Conns |-> AnyBind],
   passwords |-> Passwords, is_auth |-> BOOLEAN, submitters |-> {},
   esm_class |-> {}, registered_delivery |-> {}, validity_period |-> {},
   status |-> {}]

\* One user's submitter, a second connection of that user in any mode, and
\* receivers of that user or of another; the provider lets every one bind.
\* The messages are of the default mode or of a mode the server refuses.
MsgInputs ==
  [conns |-> Conns, reqs |-> Reqs, pdus |-> MaxPdus,
   binds |-> [c \in Conns |->
                IF c <= 2 THEN BindCommands \X {"mtc"}
                ELSE {"bind_receiver"} \X Sids],
   passwords |-> Passwords, is_auth |-> {TRUE}, submitters |-> {1},
   esm_class |-> {0, 1}, registered_delivery |-> RegDels,
   validity_period |-> ValidityPeriods, status |-> DeliveryStatus]

\* Two users' connections behind the master: the first two connections bind
\* in any mode and submit, the others are receivers; every delivery succeeds.
ClusterInputs ==
  [conns |-> Conns, reqs |-> Reqs, pdus |-> MaxPdus,
   binds |-> [c \in Conns |->
                IF c <= 2 THEN BindCommands \X {"mtc"}
                ELSE {"bind_receiver"} \X Sids],
   passwords |-> Passwords, is_auth |-> {TRUE}, submitters |-> {1, 2},
   esm_class |-> {3}, registered_delivery |-> {1, 226},
   validity_period |-> {""}, status |-> {"OK"}]

\* One user's connections, all but one of MaxConns: each binds in any mode,
\* asks for the link, unbinds, sends frames that cannot be decoded, or loses
\* its socket.  No client submits a message.
LinkInputs ==
  [conns |-> 1..(MaxConns - 1), reqs |-> Reqs, pdus |-> MaxPdus,
   binds |-> [c \in Conns |-> BindCommands \X {"mtc"}],
   passwords |-> Passwords, is_auth |-> {TRUE}, submitters |-> {},
   esm_class |-> {}, registered_delivery |-> {}, validity_period |-> {},
   status |-> {}]

\* One user's connections, all but one of MaxConns, with one request more
\* each: the first binds in any mode and submits messages that ask for the
\* receipt, the others bind as receivers or transceivers; every delivery
\* succeeds.
SeqInputs ==
  [conns |-> 1..(MaxConns - 1), reqs |-> [c \in Conns |-> Reqs[c] + 1],
   pdus |-> MaxPdus + 1,
   binds |-> [c \in Conns |->
                IF c = 1 THEN BindCommands \X {"mtc"}
                ELSE {"bind_receiver", "bind_transceiver"} \X {"mtc"}],
   passwords |-> Passwords, is_auth |-> {TRUE}, submitters |-> {1},
   esm_class |-> EsmClasses, registered_delivery |-> {1},
   validity_period |-> {""}, status |-> {"OK"}]

\* ------------------------------------------------------------------ codec
\* smpp/parse.py on bytes.  A frame is a sequence of bytes, a string field
\* of a PDU the sequence of its ASCII codes.  What a function of parse.py
\* returns is Ok(value); what it raises is Raise(name of the exception).
Ok(v) == [exc |-> "", val |-> v]
Raise(e) == [exc |-> e, val |-> << >>]

\* The PDU classes of parse.py that the model encodes and decodes.
HeaderOnly == {"enquire_link", "enquire_link_resp", "unbind", "unbind_resp", "generic_nack"}
BindResps == {"bind_receiver_resp", "bind_transmitter_resp", "bind_transceiver_resp"}

\* Command: the command ids of the enumeration, for the commands of the
\* model, each as the four bytes of struct.pack("!I", id).
command_id(command) ==
  CASE command = "generic_nack" -> <<128, 0, 0, 0>>
    [] command = "bind_receiver" -> <<0, 0, 0, 1>>
    [] command = "bind_receiver_resp" -> <<128, 0, 0, 1>>
    [] command = "bind_transmitter" -> <<0, 0, 0, 2>>
    [] command = "bind_transmitter_resp" -> <<128, 0, 0, 2>>
    [] command = "query_sm" -> <<0, 0, 0, 3>>
    [] command = "submit_sm" -> <<0, 0, 0, 4>>
    [] command = "submit_sm_resp" -> <<128, 0, 0, 4>>
    [] command = "unbind" -> <<0, 0, 0, 6>>
    [] command = "unbind_resp" -> <<128, 0, 0, 6>>
    [] command = "bind_transceiver" -> <<0, 0, 0, 9>>
    [] command = "bind_transceiver_resp" -> <<128, 0, 0, 9>>
    [] command = "enquire_link" -> <<0, 0, 0, 21>>
    [] command = "enquire_link_resp" -> <<128, 0, 0, 21>>

Commands == HeaderOnly \cup BindCommands \cup BindResps \cup {"query_sm", "submit_sm", "submit_sm_resp"}

\* struct.pack("!I", n) and struct.unpack("!I", bs), for the values below
\* 2^31, which are the ones the model checker has.
U32(n) == <<(n \div 16777216) % 256, (n \div 65536) % 256, (n \div 256) % 256, n % 256>>
ToU32(bs) == bs[1] * 16777216 + bs[2] * 65536 + bs[3] * 256 + bs[4]

\* bs[n:] and bs[:n] of Python.
Drop(bs, n) == IF n >= Len(bs) THEN << >> ELSE SubSeq(bs, n + 1, Len(bs))
Take(bs, n) == IF n >= Len(bs) THEN bs ELSE SubSeq(bs, 1, n)

\* The statement x += f(...) after the statements that made a: the first
\* exception raised is the one that leaves pack.
Cat(a, b) ==
  IF a.exc # "" THEN a ELSE IF b.exc # "" THEN b ELSE Ok(a.val \o b.val)

\* The command_length property of the PDU classes.
command_length(p) ==
  CASE p.command \in HeaderOnly -> 16
    [] p.command \in BindCommands ->
         16 + (Len(p.system_id) + 1) + (Len(p.password) + 1) + (Len(p.system_type) + 1)
            + 3 + (Len(p.address_range) + 1)
    [] p.command \in BindResps -> 16 + (Len(p.system_id) + 1)
    [] p.command = "submit_sm" ->
         16 + (Len(p.service_type) + 1) + 1 + 1 + (Len(p.source_addr) + 1)
            + 1 + 1 + (Len(p.destination_addr) + 1) + 1 + 1 + 1
            + (Len(p.schedule_delivery_time) + 1) + (Len(p.validity_period) + 1)
            + 1 + 1 + 1 + 1 + 1 + (Len(p.short_message) + 1)
    [] p.command = "submit_sm_resp" -> 16 + (Len(p.message_id) + 1)
    [] p.command = "query_sm" ->
         16 + (Len(p.message_id) + 1) + 1 + 1 + (Len(p.source_addr) + 1)

\* PDU._pack_header: struct.pack("!IIII", ...) raises struct.error for a
\* value that is not a 32-bit unsigned integer.
_pack_header(p) ==
  IF \E n \in {command_length(p), p.command_status, p.sequence_number} : n < 0
  THEN Raise("struct.error")
  ELSE Ok(U32(command_length(p)) \o command_id(p.command)
          \o U32(p.command_status) \o U32(p.sequence_number))

\* _pack_str: its first statement reads st, a name bound neither in the
\* function (the parameter is input_str) nor in the module, so every call
\* raises NameError.
_pack_str(input_str, max_size) == Raise("NameError")

\* _pack_fmt for a format of n unsigned bytes.
_pack_fmt(n, params) ==
  IF Len(params) # n \/ \E i \in DOMAIN params : params[i] \notin 0..255
  THEN Raise("PackingError")
  ELSE Ok(params)

\* The pack method of the PDU classes; the bind requests have none, so
\* PDU.pack answers for them.
pack(p) ==
  CASE p.command \in HeaderOnly -> _pack_header(p)
    [] p.command \in BindResps -> Cat(_pack_header(p), _pack_str(p.system_id, 16))
    [] p.command = "submit_sm_resp" -> Cat(_pack_header(p), _pack_str(p.message_id, 65))
    [] p.command = "submit_sm" ->
         Cat(Cat(Cat(Cat(Cat(Cat(Cat(Cat(Cat(Cat(_pack_header(p),
           _pack_str(p.service_type, 6)),
           _pack_fmt(2, <<p.source_addr_ton, p.source_addr_npi>>)),
           _pack_str(p.source_addr, 21)),
           _pack_fmt(2, <<p.dest_addr_ton, p.dest_addr_npi>>)),
           _pack_str(p.destination_addr, 21)),
           _pack_fmt(3, <<p.esm_class, p.protocol_id, p.priority_flag>>)),
           _pack_str(p.schedule_delivery_time, 17)),
           _pack_str(p.validity_period, 17)),
           _pack_fmt(4, <<p.registered_delivery, p.replace_if_present_flag,
                          p.data_coding, p.sm_default_msg_id, p.sm_length>>)),
           _pack_str(p.short_message, 254))
    [] OTHER -> Raise("NotImplementedError")

\* PDU._unpack_header for the class of the given command: status, sequence
\* number and the bytes of the body.
_unpack_header(command, bs) ==
  IF Len(bs) < 16 THEN Raise("struct.error")
  ELSE IF Len(bs) # ToU32(SubSeq(bs, 1, 4)) THEN Raise("UnpackingError")
  ELSE IF command_id(command) # SubSeq(bs, 5, 8) THEN Raise("UnpackingError")
  ELSE Ok([command_status |-> ToU32(SubSeq(bs, 9, 12)),
           sequence_number |-> ToU32(SubSeq(bs, 13, 16)),
           rest |-> Drop(bs, 16)])

\* unpack_coctet_string: the bytes before the first zero byte, decoded as
\* ASCII, and the bytes after it.
unpack_coctet_string(bs) ==
  IF \A i \in DOMAIN bs : bs[i] # 0 THEN Raise("UnpackingError")
  ELSE LET z == CHOOSE i \in DOMAIN bs : bs[i] = 0 /\ \A j \in 1..(i - 1) : bs[j] # 0
       IN  IF \E j \in 1..(z - 1) : bs[j] > 127 THEN Raise("UnicodeDecodeError")
           ELSE Ok([str |-> Take(bs, z - 1), rest |-> Drop(bs, z)])

\* _unpack_fmt for a format of n unsigned bytes.
_unpack_fmt(n, bs) ==
  IF Len(bs) <= n THEN Raise("UnpackingError")
  ELSE Ok([params |-> Take(bs, n), rest |-> Drop(bs, n)])

\* _unpack_octet_string.
_unpack_octet_string(bs, sm_length) ==
  IF \E j \in DOMAIN Take(bs, sm_length) : bs[j] > 127 THEN Raise("UnicodeDecodeError")
  ELSE Ok([str |-> Take(bs, sm_length), rest |-> Drop(bs, sm_length)])

\* BindTransmitter.unpack, BindReceiver.unpack, BindTransceiver.unpack.
unpack_bind(command, bs) ==
  LET h == _unpack_header(command, bs)
  IN  IF h.exc # "" THEN h ELSE
  LET sid == unpack_coctet_string(h.val.rest)
  IN  IF sid.exc # "" THEN sid ELSE
  LET pwd == unpack_coctet_string(sid.val.rest)
  IN  IF pwd.exc # "" THEN pwd ELSE
  LET syt == unpack_coctet_string(pwd.val.rest)
  IN  IF syt.exc # "" THEN syt ELSE
  LET f == _unpack_fmt(3, syt.val.rest)
  IN  IF f.exc # "" THEN f ELSE
  LET adr == unpack_coctet_string(f.val.rest)
  IN  IF adr.exc # "" THEN adr ELSE
      Ok([command |-> command, command_status |-> h.val.command_status,
          sequence_number |-> h.val.sequence_number,
          system_id |-> sid.val.str, password |-> pwd.val.str,
          system_type |-> syt.val.str, interface_version |-> f.val.params[1],
          addr_ton |-> f.val.params[2], addr_npi |-> f.val.params[3],
          address_range |-> adr.val.str])

\* SubmitSm.unpack.
unpack_submit_sm(bs) ==
  LET h == _unpack_header("submit_sm", bs)
  IN  IF h.exc # "" THEN h ELSE
  LET svt == unpack_coctet_string(h.val.rest)
  IN  IF svt.exc # "" THEN svt ELSE
  LET f1 == _unpack_fmt(2, svt.val.rest)
  IN  IF f1.exc # "" THEN f1 ELSE
  LET sa == unpack_coctet_string(f1.val.rest)
  IN  IF sa.exc # "" THEN sa ELSE
  LET f2 == _unpack_fmt(2, sa.val.rest)
  IN  IF f2.exc # "" THEN f2 ELSE
  LET da == unpack_coctet_string(f2.val.rest)
  IN  IF da.exc # "" THEN da ELSE
  LET f3 == _unpack_fmt(3, da.val.rest)
  IN  IF f3.exc # "" THEN f3 ELSE
  LET sdt == unpack_coctet_string(f3.val.rest)
  IN  IF sdt.exc # "" THEN sdt ELSE
  LET vp == unpack_coctet_string(sdt.val.rest)
  IN  IF vp.exc # "" THEN vp ELSE
  LET f4 == _unpack_fmt(5, vp.val.rest)
  IN  IF f4.exc # "" THEN f4 ELSE
  LET sm == _unpack_octet_string(f4.val.rest, f4.val.params[5])
  IN  IF sm.exc # "" THEN sm ELSE
      Ok([command |-> "submit_sm", command_status |-> h.val.command_status,
          sequence_number |-> h.val.sequence_number,
          service_type |-> svt.val.str,
          source_addr_ton |-> f1.val.params[1], source_addr_npi |-> f1.val.params[2],
          source_addr |-> sa.val.str,
          dest_addr_ton |-> f2.val.params[1], dest_addr_npi |-> f2.val.params[2],
          destination_addr |-> da.val.str,
          esm_class |-> f3.val.params[1], protocol_id |-> f3.val.params[2],
          priority_flag |-> f3.val.params[3],
          schedule_delivery_time |-> sdt.val.str, validity_period |-> vp.val.str,
          registered_delivery |-> f4.val.params[1],
          replace_if_present_flag |-> f4.val.params[2],
          data_coding |-> f4.val.params[3], sm_default_msg_id |-> f4.val.params[4],
          sm_length |-> f4.val.params[5], short_message |-> sm.val.str])

\* QuerySm.unpack: it does not keep what _unpack_header returns, so the
\* fields are read from the first byte of the frame, not of the body.
unpack_query_sm(bs) ==
  LET h == _unpack_header("query_sm", bs)
  IN  IF h.exc # "" THEN h ELSE
  LET mid == unpack_coctet_string(bs)
  IN  IF mid.exc # "" THEN mid ELSE
  LET f == _unpack_fmt(2, mid.val.rest)
  IN  IF f.exc # "" THEN f ELSE
  LET sa == unpack_coctet_string(f.val.rest)
  IN  IF sa.exc # "" THEN sa ELSE
      Ok([command |-> "query_sm", command_status |-> h.val.command_status,
          sequence_number |-> h.val.sequence_number,
          message_id |-> mid.val.str,
          source_addr_ton |-> f.val.params[1], source_addr_npi |-> f.val.params[2],
          source_addr |-> sa.val.str])

\* The unpack of the classes that consist of the header.
unpack_header_only(command, bs) ==
  LET h == _unpack_header(command, bs)
  IN  IF h.exc # "" THEN h
      ELSE Ok([command |-> command, command_status |-> h.val.command_status,
               sequence_number |-> h.val.sequence_number])

\* unpack_pdu: struct.unpack("!II", bs[:8]) raises struct.error for less
\* than 8 bytes, Command(cid) raises ValueError for a value that is not in
\* the enumeration, and the class of the command unpacks; the response
\* classes with a body have no unpack, so PDU.unpack answers for them.
unpack_pdu(bs) ==
  IF Len(bs) < 8 THEN Raise("struct.error")
  ELSE LET cid == SubSeq(bs, 5, 8)
       IN  IF \A command \in Commands : command_id(command) # cid
           THEN Raise("ValueError")
           ELSE LET command == CHOOSE k \in Commands : command_id(k) = cid
                IN  CASE command \in HeaderOnly -> unpack_header_only(command, bs)
                      [] command \in BindCommands -> unpack_bind(command, bs)
                      [] command = "submit_sm" -> unpack_submit_sm(bs)
                      [] command = "query_sm" -> unpack_query_sm(bs)
                      [] OTHER -> Raise("NotImplementedError")

\* The ASCII codes of the strings of the model.
Ascii(s) ==
  CASE s = "" -> << >>
    [] s = "mtc" -> <<109, 116, 99>>
    [] s = "nomtc" -> <<110, 111, 109, 116, 99>>
    [] s = "pwd" -> <<112, 119, 100>>
    [] s = "hi" -> <<104, 105>>
    [] s = "0a1b" -> <<48, 97, 49, 98>>

\* The sequence numbers of the PDUs that are encoded and decoded: the small
\* ones and a large one.
CodecSeqs == (0..MaxPdus) \cup {2147483647}

\* The frame a client sends for the request p: the layout of SMPP v3.4, as
\* in the frames of parse_tests.py.  A C-octet string ends with a zero byte;
\* short_message is sm_length bytes without one.
frame_of(p) ==
  LET z == <<0>>
      body ==
        CASE p.command \in HeaderOnly -> << >>
          [] p.command \in BindCommands ->
               p.system_id \o z \o p.password \o z \o p.system_type \o z
               \o <<p.interface_version, p.addr_ton, p.addr_npi>> \o p.address_range \o z
          [] p.command = "submit_sm" ->
               p.service_type \o z \o <<p.source_addr_ton, p.source_addr_npi>>
               \o p.source_addr \o z \o <<p.dest_addr_ton, p.dest_addr_npi>>
               \o p.destination_addr \o z
               \o <<p.esm_class, p.protocol_id, p.priority_flag>>
               \o p.schedule_delivery_time \o z \o p.validity_period \o z
               \o <<p.registered_delivery, p.replace_if_present_flag, p.data_coding,
                    p.sm_default_msg_id, Len(p.short_message)>>
               \o p.short_message
          [] p.command = "query_sm" ->
               p.message_id \o z \o <<p.source_addr_ton, p.source_addr_npi>>
               \o p.source_addr \o z
  IN  U32(16 + Len(body)) \o command_id(p.command) \o U32(p.command_status)
      \o U32(p.sequence_number) \o body

\* The requests the clients send.
ClientPdus ==
  [command : {"enquire_link", "unbind"}, command_status : {0}, sequence_number : CodecSeqs]
  \cup [command : BindCommands, command_status : {0}, sequence_number : CodecSeqs,
        system_id : {Ascii(sid) : sid \in Sids}, password : {Ascii(pwd) : pwd \in Passwords},
        system_type : {<< >>}, interface_version : {52}, addr_ton : {0}, addr_npi : {0},
        address_range : {<< >>}]
  \cup [command : {"submit_sm"}, command_status : {0}, sequence_number : CodecSeqs,
        service_type : {<< >>}, source_addr_ton : {0}, source_addr_npi : {0},
        source_addr : {<<49>>}, dest_addr_ton : {0}, dest_addr_npi : {0},
        destination_addr : {<<50>>}, esm_class : EsmClasses, protocol_id : {0},
        priority_flag : {0}, schedule_delivery_time : {<< >>}, validity_period : {<< >>},
        registered_delivery : {0, 1}, replace_if_present_flag : {0}, data_coding : {0},
        sm_default_msg_id : {0}, sm_length : {2}, short_message : {Ascii("hi")}]
  \cup [command : {"query_sm"}, command_status : {0}, sequence_number : CodecSeqs,
        message_id : {Ascii("0a1b")}, source_addr_ton : {0}, source_addr_npi : {0},
        source_addr : {<<49>>}]

\* The PDUs the server builds to send them: the responses and generic_nack.
ServerPdus ==
  [command : {"enquire_link_resp", "unbind_resp"}, command_status : {0},
   sequence_number : CodecSeqs]
  \cup [command : {"generic_nack"},
        command_status : {COMMAND_STATUS_ESME_RINVBNDSTS, COMMAND_STATUS_ESME_RUNKNOWNERR},
        sequence_number : CodecSeqs]
  \cup [command : BindResps,
        command_status : {COMMAND_STATUS_ESME_ROK, COMMAND_STATUS_ESME_RINVPASWD},
        sequence_number : CodecSeqs, system_id : {Ascii(sid) : sid \in Sids}]
  \cup [command : {"submit_sm_resp"}, command_status : {COMMAND_STATUS_ESME_ROK},
        sequence_number : CodecSeqs, message_id : {Ascii("0a1b")}]

\* Frames that are not the encoding of a PDU: a bind_transmitter whose
\* system_id has no zero byte after it; a bind_transmitter that ends within
\* its three integers; a header with the command id 0x0000000A, which is not
\* in Command; a frame of 12 bytes.
Frames ==
  {U32(19) \o command_id("bind_transmitter") \o U32(0) \o U32(1) \o Ascii("mtc"),
   U32(27) \o command_id("bind_transmitter") \o U32(0) \o U32(1)
     \o Ascii("mtc") \o <<0>> \o Ascii("pwd") \o <<0, 0, 52, 0>>,
   U32(16) \o <<0, 0, 0, 10>> \o U32(0) \o U32(1),
   U32(12) \o command_id("enquire_link") \o U32(0)}

\* The errors of the socket that end Connection.read or StreamWriter.drain,
\* other than the end of the stream.
IOErrors == {"ConnectionResetError", "BrokenPipeError"}

ReqId(c) == <<c, nreq[c] + 1>>
ClientSeqs(c) == {nreq[c] + 1}

RECURSIVE SumTo(_, _)
SumTo(f, n) == IF n = 0 THEN 0 ELSE f[n] + SumTo(f, n - 1)
NPdus == SumTo(nreq, MaxConns)

\* --------------------------------------------------------------- Connection
\* can_transmit that only asks whether the connection is bound.
can_transmit_any_bound(c) == mode[c] # "UNBOUND"

can_transmit(c) == mode[c] \in {"TRANSMITTER", "TRANSCEIVER"}

can_receive(c) == mode[c] \in {"RECEIVER", "TRANSCEIVER"}

\* Connection.read that leaves last_seqnum alone.
read_keeps_seqnum(c, pdu) ==
  /\ last_seqnum' = last_seqnum
  /\ last_read' = [last_read EXCEPT ![c] =
                     [Header(pdu.command, pdu.sequence_number)
                      EXCEPT !.esm_class = pdu.esm_class]]

\* Connection.read: the part that follows the decoding.
read(c, pdu) ==
  /\ last_seqnum' = [last_seqnum EXCEPT ![c] =
                       IF pdu.sequence_number > @ THEN pdu.sequence_number ELSE @]
  /\ last_read' = [last_read EXCEPT ![c] =
                     [Header(pdu.command, pdu.sequence_number)
                      EXCEPT !.esm_class = pdu.esm_class]]

\* Connection.send, for a PDU that packs: the handlers are modelled with the
\* PDUs they hand to the transport; what pack() makes of each class is
\* modelled by pack and examined under SpecCodec.
send(out, c, pdu) == [out EXCEPT ![c] = Append(@, pdu)]

\* send_new_seqnum without the increment of last_seqnum.
send_new_seqnum_no_increment(c, pdu) ==
  /\ last_seqnum' = last_seqnum
  /\ sent' = send(sent, c, [pdu EXCEPT !.sequence_number = last_seqnum[c]])

\* Connection.send_new_seqnum on connection c.
send_new_seqnum(c, pdu) ==
  /\ last_seqnum' = [last_seqnum EXCEPT ![c] = @ + 1]
  /\ sent' = send(sent, c, [pdu EXCEPT !.sequence_number = last_seqnum[c] + 1])

\* ----------------------------------------------------------------- Server
Client(sid, pwd) == [system_id |-> sid, password |-> pwd, connections |-> {}]

\* The state Server._bind and Server._unbind work on: one server's _clients
\* and the mode and client fields of the connections.
Registry(w) == [mode |-> mode, client |-> client, clients |-> clients[w]]

\* _unbind without its second loop: a session that lost its last connection
\* stays in the registry.
_unbind_keeps_empty(reg, conn) ==
  [mode |-> [reg.mode EXCEPT ![conn] = "UNBOUND"],
   client |-> [reg.client EXCEPT ![conn] = None],
   clients |-> [sid \in DOMAIN reg.clients |->
                  [reg.clients[sid] EXCEPT !.connections = @ \ {conn}]]]

\* _unbind without its first two assignments: the connection leaves the
\* sessions but keeps its mode and its client.
_unbind_keeps_mode(reg, conn) ==
  LET removed == [sid \in DOMAIN reg.clients |->
                    [reg.clients[sid] EXCEPT !.connections = @ \ {conn}]]
      remove_sids == {sid \in DOMAIN removed :
                        Cardinality(removed[sid].connections) = 0}
  IN  [mode |-> reg.mode,
       client |-> reg.client,
       clients |-> [sid \in (DOMAIN removed) \ remove_sids |-> removed[sid]]]

\* _unbind without the assignment of conn.client: the connection becomes
\* UNBOUND and keeps pointing to its session.
_unbind_keeps_client(reg, conn) ==
  LET removed == [sid \in DOMAIN reg.clients |->
                    [reg.clients[sid] EXCEPT !.connections = @ \ {conn}]]
      remove_sids == {sid \in DOMAIN removed :
                        Cardinality(removed[sid].connections) = 0}
  IN  [mode |-> [reg.mode EXCEPT ![conn] = "UNBOUND"],
       client |-> reg.client,
       clients |-> [sid \in (DOMAIN removed) \ remove_sids |-> removed[sid]]]

_unbind(reg, conn) ==
  LET removed == [sid \in DOMAIN reg.clients |->
                    [reg.clients[sid] EXCEPT !.connections = @ \ {conn}]]
      remove_sids == {sid \in DOMAIN removed :
                        Cardinality(removed[sid].connections) = 0}
  IN  [mode |-> [reg.mode EXCEPT ![conn] = "UNBOUND"],
       client |-> [reg.client EXCEPT ![conn] = None],
       clients |-> [sid \in (DOMAIN removed) \ remove_sids |-> removed[sid]]]

\* _bind with its call of _unbind after the connection is attached.
_bind_unbind_last(reg, conn, m, sid, pwd) ==
  LET created == IF sid \notin DOMAIN reg.clients
                 THEN [s \in (DOMAIN reg.clients) \cup {sid} |->
                         IF s = sid THEN Client(sid, pwd) ELSE reg.clients[s]]
                 ELSE reg.clients
      u == _unbind([reg EXCEPT !.clients =
                      [created EXCEPT ![sid].connections = @ \cup {conn}]], conn)
  IN  [mode |-> [u.mode EXCEPT ![conn] = m],
       client |-> [u.client EXCEPT ![conn] = sid],
       clients |-> u.clients]

\* _bind without its call of _unbind.
_bind_no_unbind(reg, conn, m, sid, pwd) ==
  LET created == IF sid \notin DOMAIN reg.clients
                 THEN [s \in (DOMAIN reg.clients) \cup {sid} |->
                         IF s = sid THEN Client(sid, pwd) ELSE reg.clients[s]]
                 ELSE reg.clients
  IN  [mode |-> [reg.mode EXCEPT ![conn] = m],
       client |-> [reg.client EXCEPT ![conn] = sid],
       clients |-> [created EXCEPT ![sid].connections = @ \cup {conn}]]

\* _bind that stores the password of every bind in the session.
_bind_sets_password(reg, conn, m, sid, pwd) ==
  LET u == _unbind(reg, conn)
      created == [s \in (DOMAIN u.clients) \cup {sid} |->
                    IF s \notin DOMAIN u.clients THEN Client(sid, pwd)
                    ELSE IF s = sid THEN [u.clients[s] EXCEPT !.password = pwd]
                    ELSE u.clients[s]]
  IN  [mode |-> [u.mode EXCEPT ![conn] = m],
       client |-> [u.client EXCEPT ![conn] = sid],
       clients |-> [created EXCEPT ![sid].connections = @ \cup {conn}]]

_bind(reg, conn, m, sid, pwd) ==
  LET u == _unbind(reg, conn)
      created == IF sid \notin DOMAIN u.clients
                 THEN [s \in (DOMAIN u.clients) \cup {sid} |->
                         IF s = sid THEN Client(sid, pwd) ELSE u.clients[s]]
                 ELSE u.clients
  IN  [mode |-> [u.mode EXCEPT ![conn] = m],
       client |-> [u.client EXCEPT ![conn] = sid],
       clients |-> [created EXCEPT ![sid].connections = @ \cup {conn}]]

SetRegistry(w, reg) ==
  /\ mode' = reg.mode
  /\ client' = reg.client
  /\ clients' = [clients EXCEPT ![w] = reg.clients]

\* get_receivers without the test of can_receive.
get_receivers_any_mode(w, sid) ==
  IF sid \notin DOMAIN clients[w] THEN {} ELSE clients[w][sid].connections

get_receivers(w, sid) ==
  IF sid \notin DOMAIN clients[w] THEN {}
  ELSE {conn \in clients[w][sid].connections : can_receive(conn)}

BindMode(command) ==
  CASE command = "bind_receiver" -> "RECEIVER"
    [] command = "bind_transmitter" -> "TRANSMITTER"
    [] command = "bind_transceiver" -> "TRANSCEIVER"

\* do_bind without the copy of the request's sequence number into the
\* response.
do_bind_no_seqnum(reg, conn, pdu, is_auth) ==
  LET resp == [Pdu(pdu.command \o "_resp", COMMAND_STATUS_ESME_ROK, 0, pdu.req)
               EXCEPT !.system_id = pdu.system_id]
  IN  IF ~is_auth
      THEN [reg |-> reg,
            resp |-> [resp EXCEPT !.command_status = COMMAND_STATUS_ESME_RINVPASWD]]
      ELSE [reg |-> _bind(reg, conn, BindMode(pdu.command), pdu.system_id, pdu.password),
            resp |-> resp]

\* do_bind without the return that follows the failed authentication.
do_bind_no_return(reg, conn, pdu, is_auth) ==
  LET resp == [Pdu(pdu.command \o "_resp", COMMAND_STATUS_ESME_ROK,
                   pdu.sequence_number, pdu.req)
               EXCEPT !.system_id = pdu.system_id]
  IN  [reg |-> _bind(reg, conn, BindMode(pdu.command), pdu.system_id, pdu.password),
       resp |-> IF is_auth THEN resp
                ELSE [resp EXCEPT !.command_status = COMMAND_STATUS_ESME_RINVPASWD]]

\* do_bind that unbinds the connection when the authentication fails.
do_bind_unbinds_refused(reg, conn, pdu, is_auth) ==
  LET resp == [Pdu(pdu.command \o "_resp", COMMAND_STATUS_ESME_ROK,
                   pdu.sequence_number, pdu.req)
               EXCEPT !.system_id = pdu.system_id]
  IN  IF ~is_auth
      THEN [reg |-> _unbind(reg, conn),
            resp |-> [resp EXCEPT !.command_status = COMMAND_STATUS_ESME_RINVPASWD]]
      ELSE [reg |-> _bind(reg, conn, BindMode(pdu.command), pdu.system_id, pdu.password),
            resp |-> resp]

\* Server.do_bind after provider.authenticate has returned is_auth: the
\* registry it leaves and the response it returns.
do_bind(reg, conn, pdu, is_auth) ==
  LET resp == [Pdu(pdu.command \o "_resp", COMMAND_STATUS_ESME_ROK,
                   pdu.sequence_number, pdu.req)
               EXCEPT !.system_id = pdu.system_id]
  IN  IF ~is_auth
      THEN [reg |-> reg,
            resp |-> [resp EXCEPT !.command_status = COMMAND_STATUS_ESME_RINVPASWD]]
      ELSE [reg |-> _bind(reg, conn, BindMode(pdu.command), pdu.system_id, pdu.password),
            resp |-> resp]

\* The enquire_link_resp without the copy of the request's sequence number.
enquire_link_resp_no_seqnum(pdu) ==
  Pdu("enquire_link_resp", COMMAND_STATUS_ESME_ROK, 0, pdu.req)

\* Server._dispatch_pdu, ENQUIRE_LINK: the response.
enquire_link_resp(pdu) ==
  Pdu("enquire_link_resp", COMMAND_STATUS_ESME_ROK, pdu.sequence_number, pdu.req)

\* Server._on_client_connected: what becomes of an exception raised inside
\* its loop.  "nack": a generic_nack is sent and the loop goes on; "unbind":
\* the loop is left, the writer closed and the connection unbound; "escape":
\* the exception leaves the coroutine, none of that is done.
on_exception(exc) ==
  CASE exc = "UnpackingError" -> "nack"
    [] exc = "IncompleteReadError" -> "unbind"
    [] OTHER -> "escape"

\* -------------------------------------------------------------- Dispatcher
\* Dispatcher.parse_validity_period: its last lines read pdu, a name that is
\* bound neither in the function nor in the module, so every call raises.
parse_validity_period(vp) == [raised |-> TRUE, value |-> 0]

\* One turn of the loop of Dispatcher._store_and_forward, provider.deliver
\* having returned status at time t.
retry_step(status, t, sm_validity_period) ==
  IF ~should_retry(status)
  THEN [exit |-> TRUE, final_status |-> status, expired |-> FALSE]
  ELSE IF t < sm_validity_period
       THEN [exit |-> TRUE, final_status |-> None, expired |-> TRUE]
       ELSE [exit |-> FALSE, final_status |-> None, expired |-> FALSE]

\* The DeliveryReceipt with the branches of NO_BALANCE and UNDELIVERABLE
\* exchanged.
delivery_receipt_exchanged(message_id, final_status, expired) ==
  [id |-> message_id,
   dlvrd |-> IF final_status = "OK" THEN 1 ELSE 0,
   err |-> IF final_status = "OK" THEN 0 ELSE 1,
   stat |-> IF final_status = "OK" THEN RECEIPT_DELIVERED
            ELSE IF final_status = "NO_BALANCE" THEN RECEIPT_UNDELIVERABLE
            ELSE IF final_status = "UNDELIVERABLE" THEN RECEIPT_REJECTED
            ELSE IF final_status = "AUTH_FAILED" THEN RECEIPT_REJECTED
            ELSE IF expired THEN RECEIPT_EXPIRED
            ELSE RECEIPT_UNKNOWN]

\* The DeliveryReceipt without the assignment of its id.
delivery_receipt_no_id(message_id, final_status, expired) ==
  [id |-> "",
   dlvrd |-> IF final_status = "OK" THEN 1 ELSE 0,
   err |-> IF final_status = "OK" THEN 0 ELSE 1,
   stat |-> IF final_status = "OK" THEN RECEIPT_DELIVERED
            ELSE IF final_status = "UNDELIVERABLE" THEN RECEIPT_UNDELIVERABLE
            ELSE IF final_status = "NO_BALANCE" THEN RECEIPT_REJECTED
            ELSE IF final_status = "AUTH_FAILED" THEN RECEIPT_REJECTED
            ELSE IF expired THEN RECEIPT_EXPIRED
            ELSE RECEIPT_UNKNOWN]

\* Dispatcher._store_and_forward: the DeliveryReceipt it builds after the loop.
delivery_receipt(message_id, final_status, expired) ==
  [id |-> message_id,
   dlvrd |-> IF final_status = "OK" THEN 1 ELSE 0,
   err |-> IF final_status = "OK" THEN 0 ELSE 1,
   stat |-> IF final_status = "OK" THEN RECEIPT_DELIVERED
            ELSE IF final_status = "UNDELIVERABLE" THEN RECEIPT_UNDELIVERABLE
            ELSE IF final_status = "NO_BALANCE" THEN RECEIPT_REJECTED
            ELSE IF final_status = "AUTH_FAILED" THEN RECEIPT_REJECTED
            ELSE IF expired THEN RECEIPT_EXPIRED
            ELSE RECEIPT_UNKNOWN]

\* The test of registered_delivery without the mask.
receipt_required_no_mask(registered_delivery) ==
  registered_delivery = REGDEL_SMSC_RECEIPT_REQUIRED

\* Dispatcher._dispatch_submit_sm: is the receipt handed to send_to_rcv.
receipt_required(registered_delivery) ==
  BitAnd(registered_delivery, REGDEL_SMSC_RECEIPT_MASK) = REGDEL_SMSC_RECEIPT_REQUIRED

\* Dispatcher._dispatch_submit_sm: is the message mode one it accepts.
mode_accepted(esm_class) ==
  BitAnd(esm_class, ESM_CLASS_MODE_MASK)
    \in {ESM_CLASS_MODE_DEFAULT, ESM_CLASS_MODE_STORE_AND_FORWARD}

\* Dispatcher.new_message_id: a random id.  It is one that was returned
\* before, or a fresh one; which of the fresh ones makes no difference.
new_message_id ==
  issued \cup {MessageIdSeq[i] : i \in {j \in DOMAIN MessageIdSeq :
                                          /\ MessageIdSeq[j] \notin issued
                                          /\ \A k \in 1..(j - 1) : MessageIdSeq[k] \in issued}}

NoOutcome == [req |-> <<0, 0>>]

\* ------------------------------------------------------------------- Init
InitCommon ==
  /\ last_used_worker = -1
  /\ st = [c \in Conns |-> "idle"]
  /\ worker = [c \in Conns |-> 0]
  /\ mode = [c \in Conns |-> "UNBOUND"]
  /\ client = [c \in Conns |-> None]
  /\ last_seqnum = [c \in Conns |-> 0]
  /\ pc = [c \in Conns |-> "read"]
  /\ cur = [c \in Conns |-> NoPdu]
  /\ pending = [c \in Conns |-> {}]
  /\ sent = [c \in Conns |-> << >>]
  /\ now = 0
  /\ nreq = [c \in Conns |-> 0]
  /\ deliver_log = {}
  /\ issued = {}
  /\ handled = {}
  /\ authed = [c \in Conns |-> FALSE]
  /\ last_read = [c \in Conns |-> Header(NoPdu.command, 0)]
  /\ outcome = [c \in Conns |-> NoOutcome]

\* No PDU is held by the codec.
NoObj == [exc |-> "unset", val |-> << >>]

\* MasterServer._dispatch_connection when the connection to the worker is
\* made: both sockets open, both loops about to read.  w is the socket of the
\* client, worker_w the one of the worker; client_eof and worker_eof say
\* that the peer has closed its side; up and down count the buffers that
\* have arrived from the client and from the worker and are not forwarded.
NoRelay ==
  [w |-> "open", worker_w |-> "open", client_eof |-> FALSE, worker_eof |-> FALSE,
   up |-> 0, down |-> 0, recv_loop |-> "running", send_loop |-> "running"]

\* The parts modelled apart, at rest.
InitApart ==
  /\ rx = << >>
  /\ obj = NoObj
  /\ tx = << >>
  /\ stream = [c \in Conns |-> << >>]
  /\ writing = {}
  /\ relay = [c \in Conns |-> NoRelay]
  /\ stopped = FALSE
  /\ bound_with = [c \in Conns |-> None]

\* A stand-alone Server, as smpp/server.py runs it.
Init ==
  /\ inputs = BindInputs
  /\ workers_count = 1
  /\ incoming_queue = [w \in {0} |-> FALSE]
  /\ sub_incoming = [w \in {0} |-> {}]
  /\ clients = [w \in {0} |-> << >>]
  /\ queue = [p \in {0} |-> [s \in {0} |-> << >>]]
  /\ InitCommon
  /\ InitApart

\* ---------------------------------------------------------------- actions
Accept(c, w) ==
  /\ ~stopped
  /\ c \in inputs.conns
  /\ st[c] = "idle"
  /\ \A d \in Conns : d < c => st[d] # "idle"
  /\ st' = [st EXCEPT ![c] = "open"]
  /\ worker' = [worker EXCEPT ![c] = w]

\* Server.run / conncb: a client connects to a stand-alone server.
Connect(c) ==
  /\ Accept(c, 0)
  /\ UNCHANGED <<config, apart, last_used_worker, mode, client, last_seqnum, pc, cur,
                 pending, clients, sent, bus, now, nreq, deliver_log, issued, authed, last_read, outcome>>

Reading_while_dispatching(c) ==
  /\ st[c] = "open"
  /\ pc[c] # "crashed"
  /\ nreq[c] < inputs.reqs[c]
  /\ NPdus < inputs.pdus

\* Server._on_client_connected: the loop is at its await of Connection.read,
\* the dispatch of the PDU before having returned, and the client has a PDU
\* to send.
Reading(c) ==
  /\ st[c] = "open"
  /\ pc[c] = "read"
  /\ nreq[c] < inputs.reqs[c]
  /\ NPdus < inputs.pdus

\* Server._dispatch_pdu, BIND_*: up to the await of provider.authenticate.
BindRequest(c) ==
  /\ Reading(c)
  /\ \E b \in inputs.binds[c], seq \in ClientSeqs(c), pwd \in inputs.passwords :
       LET pdu == Request(b[1], seq, b[2], pwd, 0, 0, "", ReqId(c))
       IN  /\ read(c, pdu)
           /\ cur' = [cur EXCEPT ![c] = pdu]
  /\ pc' = [pc EXCEPT ![c] = "auth"]
  /\ nreq' = [nreq EXCEPT ![c] = @ + 1]
  /\ UNCHANGED <<config, apart, last_used_worker, st, worker, mode, client, pending,
                 clients, sent, bus, now, deliver_log, issued, authed, outcome>>

\* Server.do_bind from the return of provider.authenticate, and the send of
\* the response in Server._dispatch_pdu.
AuthReturn(c) ==
  /\ pc[c] = "auth"
  /\ \E is_auth \in inputs.is_auth :
       LET r == do_bind(Registry(worker[c]), c, cur[c], is_auth)
       IN  /\ SetRegistry(worker[c], r.reg)
           /\ sent' = send(sent, c, r.resp)
           /\ authed' = [authed EXCEPT ![c] = is_auth]
           /\ bound_with' = IF is_auth THEN [bound_with EXCEPT ![c] = cur[c].password]
                            ELSE bound_with
  /\ pc' = [pc EXCEPT ![c] = "read"]
  /\ cur' = [cur EXCEPT ![c] = NoPdu]
  /\ UNCHANGED <<config, rx, obj, tx, stream, writing, relay, stopped, last_used_worker, st,
                 worker, last_seqnum, pending, bus, now, nreq, deliver_log, issued, last_read,
                 outcome>>

\* Server._dispatch_pdu, UNBIND.
Unbind(c) ==
  /\ Reading(c)
  /\ \E seq \in ClientSeqs(c) :
       LET pdu == Request("unbind", seq, "", "", 0, 0, "", ReqId(c))
       IN  /\ read(c, pdu)
           /\ SetRegistry(worker[c], _unbind(Registry(worker[c]), c))
           /\ sent' = send(sent, c, Pdu("unbind_resp", COMMAND_STATUS_ESME_ROK,
                                        pdu.sequence_number, pdu.req))
  /\ nreq' = [nreq EXCEPT ![c] = @ + 1]
  /\ UNCHANGED <<config, apart, last_used_worker, st, worker, pc, cur, pending, bus, now,
                 deliver_log, issued, authed, outcome>>

\* Server._dispatch_pdu, SUBMIT_SM on a connection that cannot transmit.
SubmitRejected(c) ==
  /\ Reading(c)
  /\ c \in inputs.submitters
  /\ ~can_transmit(c)
  /\ \E seq \in ClientSeqs(c), esm \in inputs.esm_class,
        regdel \in inputs.registered_delivery, vp \in inputs.validity_period :
       LET pdu == Request("submit_sm", seq, "", "", esm, regdel, vp, ReqId(c))
       IN  /\ read(c, pdu)
           /\ sent' = send(sent, c, Pdu("generic_nack", COMMAND_STATUS_ESME_RINVBNDSTS,
                                        pdu.sequence_number, pdu.req))
  /\ nreq' = [nreq EXCEPT ![c] = @ + 1]
  /\ UNCHANGED <<config, apart, last_used_worker, st, worker, mode, client, pc, cur, pending,
                 clients, bus, now, deliver_log, issued, authed, outcome>>

\* Dispatcher._dispatch_submit_sm: the credentials of the ShortMessage it
\* builds, those the Dispatcher got from the Client when that was created.
ShortMessage(session) ==
  [system_id |-> session.system_id, password |-> session.password]

\* Server._dispatch_pdu, SUBMIT_SM on a connection that can transmit:
\* Dispatcher.receive and _dispatch_submit_sm up to the first await of
\* provider.deliver in _store_and_forward.
Submit(c) ==
  /\ Reading(c)
  /\ c \in inputs.submitters
  /\ can_transmit(c)
  /\ \E seq \in ClientSeqs(c), esm \in inputs.esm_class,
        regdel \in inputs.registered_delivery, vp \in inputs.validity_period,
        message_id \in new_message_id :
       LET pdu == Request("submit_sm", seq, "", "", esm, regdel, vp, ReqId(c))
           submit_sm_resp == [Pdu("submit_sm_resp", COMMAND_STATUS_ESME_ROK,
                                  pdu.sequence_number, pdu.req)
                              EXCEPT !.message_id = message_id]
           nack == Pdu("generic_nack", COMMAND_STATUS_ESME_RUNKNOWNERR,
                       pdu.sequence_number, pdu.req)
       IN  /\ read(c, pdu)
           /\ IF ~mode_accepted(esm)
              THEN /\ sent' = send(sent, c, nack)
                   /\ UNCHANGED <<pc, cur, deliver_log, issued>>
              ELSE /\ sent' = send(sent, c, submit_sm_resp)
                   /\ issued' = issued \cup {message_id}
                   /\ IF vp = ""
                      THEN /\ pc' = [pc EXCEPT ![c] = "deliver"]
                           /\ cur' = [cur EXCEPT ![c] =
                                [command |-> "submit_sm", req |-> pdu.req,
                                 registered_delivery |-> regdel,
                                 message_id |-> message_id,
                                 sm_validity_period |-> now + DEFAULT_VALIDITY_PERIOD,
                                 status |-> None,
                                 sm |-> ShortMessage(clients[worker[c]][client[c]])]]
                           /\ deliver_log' = deliver_log \cup {pdu.req}
                      ELSE /\ parse_validity_period(vp).raised
                           /\ pc' = [pc EXCEPT ![c] = "crashed"]
                           /\ UNCHANGED <<cur, deliver_log>>
  /\ nreq' = [nreq EXCEPT ![c] = @ + 1]
  /\ UNCHANGED <<config, apart, last_used_worker, st, worker, mode, client, pending, clients,
                 bus, now, authed, outcome>>

\* The messaging commands other than submit_sm that a client may send; one
\* stands for them all, Dispatcher.receive treats them alike.
OtherCommands == {"query_sm"}

\* Server._dispatch_pdu and Dispatcher.receive for a command that is neither
\* enquire_link, bind, unbind nor submit_sm.  A connection that cannot
\* transmit gets the generic_nack of _dispatch_pdu; for one that can,
\* receive hands its generic_nack to Connection.send_to_rcv.
OtherCommand(c) ==
  /\ Reading(c)
  /\ c \in inputs.submitters
  /\ \E command \in OtherCommands, seq \in ClientSeqs(c) :
       LET pdu == Request(command, seq, "", "", 0, 0, "", ReqId(c))
           nack == Pdu("generic_nack", COMMAND_STATUS_ESME_RUNKNOWNERR,
                       pdu.sequence_number, pdu.req)
           recvs == get_receivers(worker[c], client[c])
       IN  /\ read(c, pdu)
           /\ IF ~can_transmit(c)
              THEN /\ sent' = send(sent, c, Pdu("generic_nack", COMMAND_STATUS_ESME_RINVBNDSTS,
                                                pdu.sequence_number, pdu.req))
                   /\ UNCHANGED <<pc, cur, pending>>
              ELSE /\ UNCHANGED sent
                   /\ IF recvs # {}
                      THEN /\ pc' = [pc EXCEPT ![c] = "fanout"]
                           /\ cur' = [cur EXCEPT ![c] = nack]
                           /\ pending' = [pending EXCEPT ![c] = recvs]
                      ELSE UNCHANGED <<pc, cur, pending>>
  /\ nreq' = [nreq EXCEPT ![c] = @ + 1]
  /\ UNCHANGED <<config, apart, last_used_worker, st, worker, mode, client, clients, bus, now,
                 deliver_log, issued, authed, outcome>>

\* The receipt as Connection.send_to_rcv gets it.
DeliverSm(req, dr) ==
  [Pdu("deliver_sm", COMMAND_STATUS_ESME_ROK, 0, req)
   EXCEPT !.esm_class = ESM_CLASS_RECEIPT_STORE_AND_FORWARD, !.receipt = dr]

\* A worker with a publisher endpoint publishes the receipt for system_id:
\* once, to the subscribers of its endpoint, each of which gets it in the
\* order of publication.
publish(p, system_id, pdu) ==
  queue' = [queue EXCEPT ![p] =
              [s \in DOMAIN @ |->
                 IF p \in sub_incoming[s]
                 THEN Append(@[s], [system_id |-> system_id, pdu |-> pdu])
                 ELSE @[s]]]

\* Dispatcher._store_and_forward from the return of provider.deliver: one turn
\* of the loop, and after the loop the receipt, the check of
\* registered_delivery and the start of Connection.send_to_rcv; on a worker
\* with a publisher endpoint the receipt goes to the bus instead.
DeliverReturn(c) ==
  /\ pc[c] = "deliver"
  /\ \E status \in inputs.status :
       LET step == retry_step(status, now, cur[c].sm_validity_period)
           dr == delivery_receipt(cur[c].message_id, step.final_status, step.expired)
           required == receipt_required(cur[c].registered_delivery)
           recvs == get_receivers(worker[c], client[c])
           local == ~incoming_queue[worker[c]]
       IN  IF ~step.exit
           THEN /\ cur' = [cur EXCEPT ![c].status = status]
                /\ UNCHANGED <<pc, pending, outcome, queue>>
           ELSE /\ outcome' = [outcome EXCEPT ![c] =
                      [req |-> cur[c].req, status |-> status,
                       registered_delivery |-> cur[c].registered_delivery,
                       receipt |-> dr, emitted |-> required,
                       receivers |-> IF required /\ local THEN recvs ELSE {},
                       mode |-> mode, client |-> client]]
                /\ IF required /\ local /\ recvs # {}
                   THEN /\ pc' = [pc EXCEPT ![c] = "fanout"]
                        /\ cur' = [cur EXCEPT ![c] = DeliverSm(cur[c].req, dr)]
                        /\ pending' = [pending EXCEPT ![c] = recvs]
                        /\ UNCHANGED queue
                   ELSE /\ pc' = [pc EXCEPT ![c] = "read"]
                        /\ cur' = [cur EXCEPT ![c] = NoPdu]
                        /\ IF required /\ ~local
                           THEN publish(worker[c], client[c], DeliverSm(cur[c].req, dr))
                           ELSE UNCHANGED queue
                        /\ UNCHANGED pending
  /\ UNCHANGED <<config, apart, last_used_worker, st, worker, mode, client, last_seqnum,
                 clients, sent, handled, now, nreq, deliver_log, issued, authed, last_read>>

\* The exceptions provider.deliver may end with.
ProviderErrors == {"ProviderError"}

\* Dispatcher._store_and_forward: the await of provider.deliver ends with an
\* exception.  Neither _store_and_forward, _dispatch_submit_sm, receive nor
\* Server._dispatch_pdu has a try around it, so Server._on_client_connected
\* decides what becomes of it.
DeliverRaises(c) ==
  /\ pc[c] = "deliver"
  /\ \E exc \in ProviderErrors :
       /\ on_exception(exc) = "escape"
       /\ pc' = [pc EXCEPT ![c] = "crashed"]
  /\ UNCHANGED <<config, apart, last_used_worker, st, worker, mode, client, last_seqnum, cur,
                 pending, clients, sent, bus, now, nreq, deliver_log, issued, authed,
                 last_read, outcome>>

\* The transport of r has lost its connection through an error of the socket
\* that ended the handler of r: the reader holds the exception, and
\* StreamWriter.drain raises it.
lost(r) == st[r] = "closed" /\ pc[r] = "crashed"

\* One of the send_new_seqnum tasks that Connection.send_to_rcv has handed to
\* asyncio.gather runs; after the last one the handler of c goes on reading.
ReceiptTask(c) ==
  /\ pc[c] = "fanout"
  /\ \E r \in pending[c] :
       /\ ~lost(r)
       /\ send_new_seqnum(r, cur[c])
       /\ pending' = [pending EXCEPT ![c] = @ \ {r}]
       /\ IF pending[c] = {r}
          THEN /\ pc' = [pc EXCEPT ![c] = "read"]
               /\ cur' = [cur EXCEPT ![c] = NoPdu]
          ELSE UNCHANGED <<pc, cur>>
  /\ UNCHANGED <<config, apart, last_used_worker, st, worker, mode, client, clients, bus,
                 now, nreq, deliver_log, issued, authed, last_read, outcome>>

\* One of the send_new_seqnum tasks of Connection.send_to_rcv runs for a
\* receiver whose transport is lost: last_seqnum is incremented, the write is
\* dropped, and drain raises.  asyncio.gather, called without
\* return_exceptions, passes the first exception of a task on to the
\* awaiting send_to_rcv at once, and Server._on_client_connected decides what
\* becomes of it; the other tasks are left running.
ReceiptTaskRaises(c) ==
  /\ pc[c] \in {"fanout", "crashed"}
  /\ \E r \in pending[c], exc \in IOErrors :
       /\ lost(r)
       /\ last_seqnum' = [last_seqnum EXCEPT ![r] = @ + 1]
       /\ pending' = [pending EXCEPT ![c] = @ \ {r}]
       /\ IF on_exception(exc) = "escape"
          THEN pc' = [pc EXCEPT ![c] = "crashed"]
          ELSE pc' = [pc EXCEPT ![c] = IF pending[c] = {r} THEN "read" ELSE @]
  /\ UNCHANGED <<config, apart, last_used_worker, st, worker, mode, client, cur, clients,
                 sent, bus, now, nreq, deliver_log, issued, authed, last_read, outcome>>

\* One of the send_new_seqnum tasks runs after another one has raised: the
\* handler that awaited the gather is over, the task writes all the same.
ReceiptTaskOrphan(c) ==
  /\ pc[c] = "crashed"
  /\ \E r \in pending[c] :
       /\ ~lost(r)
       /\ send_new_seqnum(r, cur[c])
       /\ pending' = [pending EXCEPT ![c] = @ \ {r}]
  /\ UNCHANGED <<config, apart, last_used_worker, st, worker, mode, client, pc, cur, clients,
                 bus, now, nreq, deliver_log, issued, authed, last_read, outcome>>

\* Server._on_client_connected: Connection.read meets the end of the stream
\* (asyncio.IncompleteReadError); the writer is closed, the connection unbound.
\* What was read from the socket and written to it goes with it.
Disconnect(c) ==
  /\ st[c] = "open"
  /\ pc[c] = "read"
  /\ st' = [st EXCEPT ![c] = "closed"]
  /\ SetRegistry(worker[c], _unbind(Registry(worker[c]), c))
  /\ sent' = [sent EXCEPT ![c] = << >>]
  /\ last_read' = [last_read EXCEPT ![c] = Header(NoPdu.command, 0)]
  /\ authed' = [authed EXCEPT ![c] = FALSE]
  /\ UNCHANGED <<config, apart, last_used_worker, worker, last_seqnum, pc, cur, pending,
                 bus, now, nreq, deliver_log, issued, outcome>>

\* Server._dispatch_pdu, ENQUIRE_LINK.
EnquireLink(c) ==
  /\ Reading(c)
  /\ \E seq \in ClientSeqs(c) :
       LET pdu == Request("enquire_link", seq, "", "", 0, 0, "", ReqId(c))
       IN  /\ read(c, pdu)
           /\ sent' = send(sent, c, enquire_link_resp(pdu))
  /\ nreq' = [nreq EXCEPT ![c] = @ + 1]
  /\ UNCHANGED <<config, apart, last_used_worker, st, worker, mode, client, pc, cur, pending,
                 clients, bus, now, deliver_log, issued, authed, outcome>>

\* Server._on_client_connected: Connection.read gets a frame that
\* parse.unpack_pdu does not decode.  No PDU is returned, so last_seqnum
\* stays; the frame counts among the requests of the client.
BadFrame(c) ==
  /\ Reading(c)
  /\ \E frame \in Frames :
       LET nack == Pdu("generic_nack", COMMAND_STATUS_ESME_RUNKNOWNERR, 0, ReqId(c))
       IN  IF on_exception(unpack_pdu(frame).exc) = "nack"
           THEN /\ sent' = send(sent, c, nack)
                /\ UNCHANGED pc
           ELSE /\ pc' = [pc EXCEPT ![c] = "crashed"]
                /\ UNCHANGED sent
  /\ last_read' = [last_read EXCEPT ![c] = Header("undecodable", 0)]
  /\ nreq' = [nreq EXCEPT ![c] = @ + 1]
  /\ UNCHANGED <<config, apart, last_used_worker, st, worker, mode, client, last_seqnum, cur,
                 pending, clients, bus, now, deliver_log, issued, authed, outcome>>

\* Server._on_client_connected: Connection.read ends with an error of the
\* socket.  The socket is gone, and with it what was read from it and
\* written to it.
ReadError(c) ==
  /\ st[c] = "open"
  /\ pc[c] = "read"
  /\ \E exc \in IOErrors :
       IF on_exception(exc) = "unbind"
       THEN /\ SetRegistry(worker[c], _unbind(Registry(worker[c]), c))
            /\ UNCHANGED pc
       ELSE /\ pc' = [pc EXCEPT ![c] = "crashed"]
            /\ UNCHANGED <<mode, client, clients>>
  /\ st' = [st EXCEPT ![c] = "closed"]
  /\ sent' = [sent EXCEPT ![c] = << >>]
  /\ last_read' = [last_read EXCEPT ![c] = Header(NoPdu.command, 0)]
  /\ authed' = [authed EXCEPT ![c] = FALSE]
  /\ UNCHANGED <<config, apart, last_used_worker, worker, last_seqnum, cur, pending, bus, now,
                 nreq, deliver_log, issued, outcome>>

\* The subscriber loop of worker s for the publisher p gets a message: every
\* local receiver of its system_id is sent the PDU under a new sequence
\* number.
BusReceive(p, s) ==
  /\ queue[p][s] # << >>
  /\ LET msg == Head(queue[p][s])
         recvs == get_receivers(s, msg.system_id)
     IN  /\ last_seqnum' = [r \in Conns |->
                              IF r \in recvs THEN last_seqnum[r] + 1 ELSE last_seqnum[r]]
         /\ sent' = [r \in Conns |->
                       IF r \in recvs
                       THEN Append(sent[r], [msg.pdu EXCEPT
                                               !.sequence_number = last_seqnum[r] + 1])
                       ELSE sent[r]]
         /\ handled' = handled \cup {[worker |-> s, req |-> msg.pdu.req,
                                       system_id |-> msg.system_id,
                                       mode |-> mode, client |-> client]}
  /\ queue' = [queue EXCEPT ![p][s] = Tail(@)]
  /\ UNCHANGED <<config, apart, last_used_worker, st, worker, mode, client, pc, cur, pending,
                 clients, now, nreq, deliver_log, issued, authed, last_read, outcome>>

_next_worker_wraps_late ==
  IF last_used_worker + 1 > workers_count THEN 0 ELSE last_used_worker + 1

\* MasterServer._next_worker: the index it returns and leaves in
\* _last_used_worker.
_next_worker ==
  IF last_used_worker + 1 >= workers_count THEN 0 ELSE last_used_worker + 1

\* MasterServer._dispatch_connection: the master accepts a client and connects
\* it to the next worker; from then on it forwards the bytes both ways.
MasterAccept(c) ==
  /\ Accept(c, _next_worker)
  /\ last_used_worker' = _next_worker
  /\ UNCHANGED <<config, apart, mode, client, last_seqnum, pc, cur, pending, clients, sent,
                 bus, now, nreq, deliver_log, issued, authed, last_read, outcome>>

\* Time passes while a handler waits for provider.deliver.
Tick ==
  /\ \E c \in Conns : pc[c] = "deliver"
  /\ now + TickSeconds <= MaxTime
  /\ now' = now + TickSeconds
  /\ UNCHANGED <<config, apart, last_used_worker, st, worker, mode, client, last_seqnum, pc,
                 cur, pending, clients, sent, bus, nreq, deliver_log, issued, authed, last_read, outcome>>

\* The bind state machine and the session registry of a stand-alone server.
Next ==
  \/ \E c \in Conns : Connect(c)
  \/ \E c \in Conns : BindRequest(c)
  \/ \E c \in Conns : AuthReturn(c)
  \/ \E c \in Conns : Unbind(c)
  \/ \E c \in Conns : Disconnect(c)

Spec == Init /\ [][Next]_vars

\* ------------------------------------------------- registry and bind claims

\* The connections bound to sid on worker w, by their own fields.
BoundTo(w, sid) ==
  {c \in Conns : worker[c] = w /\ mode[c] # "UNBOUND" /\ client[c] = sid}

\* C1: on every server the registry holds a session for a system_id exactly
\* when at least one connection is bound to that system_id, and no session
\* in the registry has an empty connection set.
C1_SessionIffBound ==
  \A w \in Workers :
    /\ \A sid \in Sids : (sid \in DOMAIN clients[w]) <=> (BoundTo(w, sid) # {})
    /\ \A sid \in DOMAIN clients[w] : clients[w][sid].connections # {}

\* A connection has bound and unbound again, its session is gone from the
\* registry, and the session of another bound connection is still there.
C1_Witness ==
  \E c \in Conns, d \in Conns :
    /\ c # d
    /\ Len(sent[c]) = 2
    /\ sent[c][1].command \in BindResps
    /\ sent[c][1].command_status = COMMAND_STATUS_ESME_ROK
    /\ sent[c][2].command = "unbind_resp"
    /\ sent[c][1].system_id \notin DOMAIN clients[worker[c]]
    /\ mode[d] # "UNBOUND"
    /\ client[d] \in DOMAIN clients[worker[d]]

\* The sessions whose connection set holds c, as <<worker, system_id>>.
SessionsOf(c) ==
  {ws \in Workers \X Sids :
     ws[2] \in DOMAIN clients[ws[1]] /\ c \in clients[ws[1]][ws[2]].connections}

\* C2: a connection is in the connection set of at most one session, and
\* that session is the one of the system_id it is bound to: a connection
\* that binds to another system_id has left the set of the one it was
\* bound to.
C2_AtMostOneSession ==
  \A c \in Conns :
    /\ Cardinality(SessionsOf(c)) <= 1
    /\ \A ws \in SessionsOf(c) : ws = <<worker[c], client[c]>>

\* A connection bound to one system_id has bound to another one since, while
\* a second connection keeps the session of the first system_id alive.
C2_Witness ==
  \E c \in Conns, d \in Conns :
    /\ c # d
    /\ Len(sent[c]) = 2
    /\ \A i \in 1..2 : /\ sent[c][i].command \in BindResps
                        /\ sent[c][i].command_status = COMMAND_STATUS_ESME_ROK
    /\ sent[c][1].system_id # sent[c][2].system_id
    /\ client[c] = sent[c][2].system_id
    /\ mode[d] # "UNBOUND"
    /\ client[d] = sent[c][1].system_id

\* The handler of c is in the step in which provider.authenticate returns.
AuthReturns(c) == pc[c] = "auth" /\ pc'[c] = "read"

ModeOfBind(command) ==
  IF command = "bind_receiver" THEN "RECEIVER"
  ELSE IF command = "bind_transmitter" THEN "TRANSMITTER" ELSE "TRANSCEIVER"

InitMsg ==
  /\ inputs = MsgInputs
  /\ workers_count = 1
  /\ incoming_queue = [w \in {0} |-> FALSE]
  /\ sub_incoming = [w \in {0} |-> {}]
  /\ clients = [w \in {0} |-> << >>]
  /\ queue = [p \in {0} |-> [s \in {0} |-> << >>]]
  /\ InitCommon
  /\ InitApart

NextMsg ==
  \/ \E c \in Conns : Connect(c)
  \/ \E c \in Conns : BindRequest(c)
  \/ \E c \in Conns : AuthReturn(c)
  \/ \E c \in Conns : Unbind(c)
  \/ \E c \in Conns : SubmitRejected(c)
  \/ \E c \in Conns : Submit(c)
  \/ \E c \in Conns : DeliverReturn(c)
  \/ \E c \in Conns : ReceiptTask(c)
  \/ \E c \in Conns : Disconnect(c)
  \/ Tick

SpecMsg == InitMsg /\ [][NextMsg]_vars

\* ---------------------------------------------------------- messaging claims
\* C5: a submit_sm read on a connection that is UNBOUND or a RECEIVER is
\* answered with a generic_nack of status ESME_RINVBNDSTS (4) that carries
\* the request's sequence_number; the mode of the connection stays, and
\* provider.deliver is not called for the request.
C5_SubmitNotAllowed ==
  [][\A c \in Conns :
       (/\ nreq'[c] = nreq[c] + 1
        /\ last_read'[c].command = "submit_sm"
        /\ mode[c] \in {"UNBOUND", "RECEIVER"}) =>
          /\ Len(sent'[c]) = Len(sent[c]) + 1
          /\ LET resp == sent'[c][Len(sent'[c])]
             IN  /\ resp.command = "generic_nack"
                 /\ resp.command_status = 4
                 /\ resp.sequence_number = last_read'[c].sequence_number
          /\ mode' = mode
          /\ pc'[c] = "read"
          /\ deliver_log' = deliver_log]_vars

\* A receiver has sent a submit_sm and got the generic_nack.
C5_Witness ==
  \E c \in Conns :
    /\ mode[c] = "RECEIVER"
    /\ last_read[c].command = "submit_sm"
    /\ Len(sent[c]) = 2
    /\ sent[c][2].command = "generic_nack"
    /\ sent[c][2].command_status = COMMAND_STATUS_ESME_RINVBNDSTS

\* The receipts for request req among the PDUs written to r: the deliver_sm
\* with the receipt bit 0x04 of esm_class.
Receipts(r, req) ==
  {i \in DOMAIN sent[r] : /\ sent[r][i].command = "deliver_sm"
                          /\ sent[r][i].req = req
                          /\ BitAnd(sent[r][i].esm_class, 4) = 4}

\* The connections that were RECEIVER or TRANSCEIVER of the submitter's
\* system_id, on its server, when the last submit_sm of c left
\* _store_and_forward.
ReceiversThen(c) ==
  {r \in Conns : /\ outcome[c].mode[r] \in {"RECEIVER", "TRANSCEIVER"}
                 /\ outcome[c].client[r] = outcome[c].client[c]
                 /\ worker[r] = worker[c]}

Finished(c) == outcome[c] # NoOutcome /\ pc[c] # "fanout"

_all_queue_urls_from_one == 1..(workers_count - 1)

\* MasterServer._all_queue_urls: the publisher endpoints of all workers, each
\* named by the index of its worker.
_all_queue_urls == 0..(workers_count - 1)

\* MasterServer._run_worker_procs: WORKERS_COUNT workers, each with its own
\* publisher endpoint and subscribed to the endpoints of all of them.
InitCluster ==
  /\ inputs = ClusterInputs
  /\ workers_count = WORKERS_COUNT
  /\ incoming_queue = [w \in 0..(WORKERS_COUNT - 1) |-> TRUE]
  /\ sub_incoming = [w \in 0..(WORKERS_COUNT - 1) |-> _all_queue_urls]
  /\ clients = [w \in 0..(WORKERS_COUNT - 1) |-> << >>]
  /\ queue = [p \in 0..(WORKERS_COUNT - 1) |-> [s \in 0..(WORKERS_COUNT - 1) |-> << >>]]
  /\ InitCommon
  /\ InitApart

NextCluster ==
  \/ \E c \in Conns : MasterAccept(c)
  \/ \E c \in Conns : BindRequest(c)
  \/ \E c \in Conns : AuthReturn(c)
  \/ \E c \in Conns : Submit(c)
  \/ \E c \in Conns : DeliverReturn(c)
  \/ \E p \in Workers, s \in Workers : BusReceive(p, s)
  \/ \E c \in Conns : Disconnect(c)

SpecCluster == InitCluster /\ [][NextCluster]_vars

\* The last submit_sm of c ended with a receipt published to the bus.
Published(c) ==
  outcome[c] # NoOutcome /\ outcome[c].emitted /\ incoming_queue[worker[c]]

\* The receipt for req is on its way to the subscriber loops of worker s.
InFlight(req, s) ==
  \E p \in Workers : \E i \in DOMAIN queue[p][s] : queue[p][s][i].pdu.req = req

HandledBy(req, s) == {h \in handled : h.worker = s /\ h.req = req}

OpenReceiversThen(c) == {r \in ReceiversThen(c) : st[r] = "open"}

C9_ReceiptOnFailureOnly ==
  \A c \in Conns :
    (Finished(c) /\ outcome[c].registered_delivery % 4 = 2) =>
      \A r \in OpenReceiversThen(c) :
        (Receipts(r, outcome[c].req) # {}) <=> (outcome[c].status # "OK")

\* The stat field that goes with a final status of the provider.
StatOf(status) ==
  CASE status = "OK" -> "DELIVRD"
    [] status = "UNDELIVERABLE" -> "UNDELIV"
    [] status = "AUTH_FAILED" -> "REJECTD"
    [] status = "NO_BALANCE" -> "REJECTD"
    [] status = "GENERIC_ERROR" -> "EXPIRED"
    [] status = "TRY_LATER" -> "EXPIRED"

InitSeq ==
  /\ inputs = SeqInputs
  /\ workers_count = 1
  /\ incoming_queue = [w \in {0} |-> FALSE]
  /\ sub_incoming = [w \in {0} |-> {}]
  /\ clients = [w \in {0} |-> << >>]
  /\ queue = [p \in {0} |-> [s \in {0} |-> << >>]]
  /\ InitCommon
  /\ InitApart

NextSeq ==
  \/ \E c \in Conns : Connect(c)
  \/ \E c \in Conns : BindRequest(c)
  \/ \E c \in Conns : AuthReturn(c)
  \/ \E c \in Conns : EnquireLink(c)
  \/ \E c \in Conns : Unbind(c)
  \/ \E c \in Conns : SubmitRejected(c)
  \/ \E c \in Conns : Submit(c)
  \/ \E c \in Conns : OtherCommand(c)
  \/ \E c \in Conns : DeliverReturn(c)
  \/ \E c \in Conns : DeliverRaises(c)
  \/ \E c \in Conns : ReceiptTask(c)
  \/ \E c \in Conns : Disconnect(c)

SpecSeq == InitSeq /\ [][NextSeq]_vars

\* The handler of c reads a request of the given command in this step.
Reads(c, command) ==
  nreq'[c] = nreq[c] + 1 /\ last_read'[c].command = command

\* One PDU more is written to r in this step, of the given command.
Writes(r, command) ==
  /\ Len(sent'[r]) = Len(sent[r]) + 1
  /\ sent'[r][Len(sent'[r])].command = command

Last(seq) == seq[Len(seq)]

DeliverReturns(c, status) ==
  /\ pc[c] = "deliver"
  /\ \/ pc'[c] = "deliver" /\ cur'[c] # cur[c] /\ cur'[c].status = status
     \/ pc'[c] # "deliver" /\ outcome'[c].status = status

\* C12: when provider.deliver returns TRY_LATER before the validity deadline
\* of the message, the dispatcher stays in the loop and awaits deliver again;
\* it builds no receipt then.
C12_RetryBeforeDeadline ==
  [][\A c \in Conns :
       (DeliverReturns(c, "TRY_LATER") /\ now < cur[c].sm_validity_period) =>
          /\ pc'[c] = "deliver"
          /\ outcome'[c] = outcome[c]]_vars

\* C13: when provider.deliver returns TRY_LATER at the validity deadline or
\* after it, the loop is left with expired = true, the receipt says EXPIRED,
\* and the handler is not kept in the loop any longer.
C13_ExpiredAtDeadline ==
  [][\A c \in Conns :
       (DeliverReturns(c, "TRY_LATER") /\ now >= cur[c].sm_validity_period) =>
          /\ pc'[c] # "deliver"
          /\ outcome'[c].receipt.stat = RECEIPT_EXPIRED]_vars

\* ------------------------------------------- sequence numbers of what is sent
\* C14, as the specification states it: on every connection the sequence
\* numbers of the PDUs the server has sent, responses and deliver_sm
\* together, strictly increase in the order of sending.
C14_SentStrictlyIncreasing ==
  \A c \in Conns : \A i \in DOMAIN sent[c] : \A j \in DOMAIN sent[c] :
    i < j => sent[c][i].sequence_number < sent[c][j].sequence_number

\* C14, amended: on every connection each deliver_sm the server originates
\* has a sequence number greater than that of every PDU sent on the
\* connection before it (so the deliver_sm strictly increase among
\* themselves); a response has the number of its request, whatever was sent
\* before.
C14_OriginatedAboveEarlier ==
  \A c \in Conns : \A j \in DOMAIN sent[c] :
    sent[c][j].command = "deliver_sm" =>
      \A i \in 1..(j - 1) : sent[c][i].sequence_number < sent[c][j].sequence_number

\* A transceiver has two receipts, and between them a response with the
\* number of the first.
C14_Witness ==
  \E c \in Conns : \E i \in DOMAIN sent[c], j \in DOMAIN sent[c], k \in DOMAIN sent[c] :
    /\ i < j /\ j < k
    /\ sent[c][i].command = "deliver_sm"
    /\ sent[c][j].command = "submit_sm_resp"
    /\ sent[c][k].command = "deliver_sm"
    /\ sent[c][j].sequence_number = sent[c][i].sequence_number
    /\ sent[c][k].sequence_number > sent[c][j].sequence_number

\* C15: a deliver_sm written to a connection has the number last_seqnum + 1
\* of that connection, which becomes its last_seqnum; the number is greater
\* than every sequence number read from that connection before (its client
\* has numbered its requests 1, 2, ...) and than that of every PDU sent to it
\* before.  Each target of a fan-out is numbered from its own counter.
C15_FreshSeqnumPerTarget ==
  [][\A r \in Conns :
       Writes(r, "deliver_sm") =>
          LET dsm == Last(sent'[r])
          IN  /\ dsm.sequence_number = last_seqnum[r] + 1
              /\ last_seqnum'[r] = dsm.sequence_number
              /\ \A d \in Conns \ {r} : last_seqnum'[d] = last_seqnum[d]
              /\ last_read[r].sequence_number < dsm.sequence_number
              /\ \A n \in 1..nreq[r] : n < dsm.sequence_number
              /\ \A i \in DOMAIN sent[r] :
                    sent[r][i].sequence_number < dsm.sequence_number]_vars

\* The receipt of one submission has gone to two connections under two
\* different sequence numbers.
C15_Witness ==
  \E c \in Conns, r \in Conns :
    /\ c # r
    /\ sent[c] # << >> /\ sent[r] # << >>
    /\ Last(sent[c]).command = "deliver_sm"
    /\ Last(sent[r]).command = "deliver_sm"
    /\ Last(sent[c]).req = Last(sent[r]).req
    /\ Last(sent[c]).sequence_number # Last(sent[r]).sequence_number

\* ------------------------------------------------- the connection handler
\* A stand-alone server whose clients do not submit messages.
InitLink ==
  /\ inputs = LinkInputs
  /\ workers_count = 1
  /\ incoming_queue = [w \in {0} |-> FALSE]
  /\ sub_incoming = [w \in {0} |-> {}]
  /\ clients = [w \in {0} |-> << >>]
  /\ queue = [p \in {0} |-> [s \in {0} |-> << >>]]
  /\ InitCommon
  /\ InitApart

NextLink ==
  \/ \E c \in Conns : Connect(c)
  \/ \E c \in Conns : BindRequest(c)
  \/ \E c \in Conns : AuthReturn(c)
  \/ \E c \in Conns : EnquireLink(c)
  \/ \E c \in Conns : BadFrame(c)
  \/ \E c \in Conns : ReadError(c)
  \/ \E c \in Conns : Unbind(c)
  \/ \E c \in Conns : Disconnect(c)

SpecLink == InitLink /\ [][NextLink]_vars

\* C16: whatever the mode of the connection, a frame that cannot be decoded
\* is answered with a generic_nack of sequence_number 0 and status
\* ESME_RUNKNOWNERR (255); the mode of the connection and the sessions stay
\* as they are, and the handler goes on to read the next frame.
C16_UndecodableFrameNacked ==
  [][\A c \in Conns :
       Reads(c, "undecodable") =>
          /\ Writes(c, "generic_nack")
          /\ Last(sent'[c]).sequence_number = 0
          /\ Last(sent'[c]).command_status = 255
          /\ mode' = mode
          /\ client' = client
          /\ clients' = clients
          /\ pc'[c] = "read"]_vars

\* C17: a connection whose handler has ended with its socket, by the end of
\* the stream or by an error of the socket, is UNBOUND and in the connection
\* set of no session.
C17_EndedHandlerUnbound ==
  \A c \in Conns :
    st[c] = "closed" =>
      /\ mode[c] = "UNBOUND"
      /\ client[c] = None
      /\ SessionsOf(c) = {}

C19_EnquireLinkEchoed ==
  [][\A c \in Conns :
       Reads(c, "enquire_link") =>
          /\ Writes(c, "enquire_link_resp")
          /\ Last(sent'[c]).sequence_number = last_read'[c].sequence_number
          /\ Last(sent'[c]).command_status = 0
          /\ mode' = mode
          /\ client' = client
          /\ clients' = clients
          /\ pc'[c] = "read"]_vars

\* An unbound connection and a bound one have each asked for the link and
\* got the answer.
C19_Witness ==
  \E c \in Conns, d \in Conns :
    /\ mode[c] = "UNBOUND" /\ mode[d] # "UNBOUND"
    /\ sent[c] # << >> /\ sent[d] # << >>
    /\ Last(sent[c]).command = "enquire_link_resp"
    /\ Last(sent[c]).sequence_number = 1
    /\ Last(sent[d]).command = "enquire_link_resp"
    /\ Last(sent[d]).sequence_number = 2
    /\ d \in clients[worker[d]][client[d]].connections

\* C20: no exception leaves Dispatcher.receive: whatever fails while a
\* submit_sm of a TRANSMITTER or TRANSCEIVER is dispatched, the computation
\* of the validity deadline included, the handler of the connection is not
\* ended by it; it stays in the dispatch or goes on to read the next PDU.
C20_NoExceptionEscapes ==
  [][\A c \in Conns :
       (Reads(c, "submit_sm") /\ mode[c] \in {"TRANSMITTER", "TRANSCEIVER"}) =>
          /\ pc'[c] \in {"read", "deliver"}
          /\ Writes(c, "generic_nack") =>
               /\ Last(sent'[c]).command_status = 255
               /\ Last(sent'[c]).sequence_number = last_read'[c].sequence_number]_vars

\* ------------------------------------------------- failures of the dispatch
\* C21: an attempt of provider.deliver that ends with an exception is treated
\* as one that returned GENERIC_ERROR: whatever ends an attempt, the handler
\* of the connection is afterwards still in the retry loop, in the fan-out of
\* the receipt or reading its next PDU; it is not ended.
C21_DeliverFailureKeepsHandler ==
  [][\A c \in Conns :
       pc[c] = "deliver" => pc'[c] \in {"deliver", "fanout", "read"}]_vars

\* C22: a messaging command other than submit_sm read on a TRANSMITTER or
\* TRANSCEIVER connection is answered on that connection, in that step, with
\* a generic_nack of status ESME_RUNKNOWNERR (255) that carries the request's
\* sequence_number.
C22_OtherCommandNackedToRequester ==
  [][\A c \in Conns :
       (/\ \E command \in OtherCommands : Reads(c, command)
        /\ mode[c] \in {"TRANSMITTER", "TRANSCEIVER"}) =>
          /\ Writes(c, "generic_nack")
          /\ Last(sent'[c]).command_status = 255
          /\ Last(sent'[c]).sequence_number = last_read'[c].sequence_number]_vars

\* ------------------------------------------------ order within a connection
\* The PDUs on c that answer requests of c itself.
OwnResponses(c) ==
  {i \in DOMAIN sent[c] : sent[c][i].req[1] = c /\ sent[c][i].command # "deliver_sm"}

\* C24: a handler reads its next PDU only when the dispatch of the one before
\* is over, provider attempts and receipt fan-out included: no PDU is pending
\* for it at that moment, every PDU written anywhere belongs to the request
\* that its connection of origin has read last, and the responses on a
\* connection stand in the order of their requests.
C24_NoPipelining ==
  [][/\ \A c \in Conns :
          nreq'[c] # nreq[c] =>
             /\ pc[c] = "read"
             /\ pending[c] = {}
             /\ cur[c] = NoPdu
     /\ \A r \in Conns :
          Len(sent'[r]) > Len(sent[r]) =>
             LET pdu == Last(sent'[r])
             IN  pdu.req[2] = nreq'[pdu.req[1]]
     /\ \A c \in Conns : \A i, j \in OwnResponses(c) :
          i < j => sent[c][i].req[2] < sent[c][j].req[2]]_vars

\* A transmitter has bound, submitted a message whose receipt the receiver
\* got, and then had a second submit_sm answered: the three responses stand
\* in the order of the requests, the receipt is of the first submission.
C24_Witness ==
  /\ nreq[1] = 3
  /\ Len(sent[1]) = 3
  /\ sent[1][1].command = "bind_transmitter_resp"
  /\ sent[1][2].command = "submit_sm_resp" /\ sent[1][2].req = <<1, 2>>
  /\ sent[1][3].command = "submit_sm_resp" /\ sent[1][3].req = <<1, 3>>
  /\ \E i \in DOMAIN sent[2] :
       sent[2][i].command = "deliver_sm" /\ sent[2][i].req = <<1, 2>>
  /\ pc[1] = "deliver"

\* C25: connections are served independently and every response is written
\* to the connection on which its request arrived, never to another one:
\* every PDU on a connection that is not a receipt answers a request of that
\* connection.
C25_ResponsesOnOwnConnection ==
  \A c \in Conns : \A i \in DOMAIN sent[c] :
     sent[c][i].command # "deliver_sm" => sent[c][i].req[1] = c

\* ------------------------------------------------------------ the master
\* The connections the master has accepted; it accepts them in the order of
\* their numbers, so connection c is the (c - 1)-th.
Accepted == {c \in Conns : st[c] # "idle"}

\* C26: the k-th accepted connection (k = 0, 1, 2, ...) goes to worker
\* k mod N; the index chosen is within 0..N-1; and between two consecutive
\* connections of one worker every other worker gets exactly one.
C26_RoundRobin ==
  /\ last_used_worker \in -1 .. (workers_count - 1)
  /\ \A c \in Accepted :
       /\ worker[c] \in 0 .. (workers_count - 1)
       /\ worker[c] = (c - 1) % workers_count
  /\ \A c, d \in Accepted :
       (/\ c < d
        /\ worker[c] = worker[d]
        /\ \A e \in Accepted : (c < e /\ e < d) => worker[e] # worker[c]) =>
          \A w \in Workers \ {worker[c]} :
             Cardinality({e \in Accepted : c < e /\ e < d /\ worker[e] = w}) = 1

\* Three connections have been accepted: the third is on the first worker
\* again, the second worker having had one in between.
C26_Witness ==
  /\ Accepted = 1..3
  /\ worker[1] = 0 /\ worker[2] = 1 /\ worker[3] = 0
  /\ last_used_worker = 0

\* ------------------------------------------------------------- re-binding
\* The connections of the session of sid in the registry cl of a worker.
ConnsOf(cl, sid) == IF sid \in DOMAIN cl THEN cl[sid].connections ELSE {}

\* C29: a successful bind on a connection that is bound takes the connection
\* out of the session it was in, which is deleted if it was the last member,
\* and attaches it to the session of the new system_id: the old session has
\* one connection less (unless it is the new one), no other session changes,
\* and afterwards the connection is in the new session only.
C29_RebindMovesConnection ==
  [][\A c \in Conns :
       (AuthReturns(c) /\ authed'[c] /\ mode[c] # "UNBOUND") =>
          LET old == client[c]
              new == cur[c].system_id
              cl == clients[worker[c]]
              cl2 == clients'[worker[c]]
          IN  /\ c \in ConnsOf(cl, old)
              /\ ConnsOf(cl2, new) = ConnsOf(cl, new) \cup {c}
              /\ old # new =>
                    /\ ConnsOf(cl2, old) = ConnsOf(cl, old) \ {c}
                    /\ Cardinality(ConnsOf(cl2, old)) = Cardinality(ConnsOf(cl, old)) - 1
                    /\ ConnsOf(cl, old) = {c} => old \notin DOMAIN cl2
              /\ \A sid \in Sids \ {old, new} : ConnsOf(cl2, sid) = ConnsOf(cl, sid)
              /\ SessionsOf(c)' = {<<worker[c], new>>}]_vars

\* A connection bound to one system_id has bound to another one; it was the
\* last connection of its old session, which is gone.
C29_Witness ==
  \E c \in Conns :
    /\ Len(sent[c]) = 2
    /\ \A i \in 1..2 : /\ sent[c][i].command \in BindResps
                        /\ sent[c][i].command_status = COMMAND_STATUS_ESME_ROK
    /\ sent[c][1].system_id # sent[c][2].system_id
    /\ client[c] = sent[c][2].system_id
    /\ sent[c][1].system_id \notin DOMAIN clients[worker[c]]
    /\ SessionsOf(c) = {<<worker[c], client[c]>>}

\* ------------------------------------------------------------------ codec
\* Connection.read: parse.unpack_pdu is applied to the frame received.
Unpack ==
  /\ rx # << >>
  /\ obj = NoObj
  /\ obj' = unpack_pdu(rx)
  /\ UNCHANGED <<config, stopped, bound_with, last_used_worker, st, worker, mode, client, last_seqnum, pc,
                 cur, pending, clients, sent, bus, now, nreq, deliver_log, issued, authed,
                 last_read, outcome, rx, tx, stream, writing, relay>>

\* Connection.send: pack() of the PDU held, decoded or built by the server.
\* The bytes it returns are received again, as by a peer that echoes them.
Pack ==
  /\ obj # NoObj
  /\ obj.exc = ""
  /\ Len(tx) < 2
  /\ LET bs == pack(obj.val)
     IN  /\ tx' = Append(tx, bs)
         /\ rx' = IF bs.exc = "" THEN bs.val ELSE << >>
  /\ obj' = NoObj
  /\ UNCHANGED <<config, stopped, bound_with, last_used_worker, st, worker, mode, client, last_seqnum, pc,
                 cur, pending, clients, sent, bus, now, nreq, deliver_log, issued, authed,
                 last_read, outcome, stream, writing, relay>>

\* The codec with a frame of a client to decode or a PDU of the server to
\* encode.
InitCodec ==
  /\ inputs = BindInputs
  /\ workers_count = 1
  /\ incoming_queue = [w \in {0} |-> FALSE]
  /\ sub_incoming = [w \in {0} |-> {}]
  /\ clients = [w \in {0} |-> << >>]
  /\ queue = [p \in {0} |-> [s \in {0} |-> << >>]]
  /\ InitCommon
  /\ tx = << >>
  /\ \/ rx \in {frame_of(p) : p \in ClientPdus} /\ obj = NoObj
     \/ rx = << >> /\ obj \in {Ok(p) : p \in ServerPdus}
  /\ stream = [c \in Conns |-> << >>]
  /\ writing = {}
  /\ relay = [c \in Conns |-> NoRelay]
  /\ stopped = FALSE
  /\ bound_with = [c \in Conns |-> None]

NextCodec ==
  \/ Unpack
  \/ Pack

SpecCodec == InitCodec /\ [][NextCodec]_vars

\* C27: for every PDU the server builds to send it, pack() returns a frame
\* whose first four bytes, read as a big-endian integer, are the number of
\* its bytes; and the command_length of a PDU decoded from a frame is the
\* length that the frame declares in its header.
C27_CommandLengthIsFrameLength ==
  [][/\ (obj # NoObj /\ obj.exc = "" /\ rx = << >> /\ Len(tx') = Len(tx) + 1) =>
          /\ Last(tx').exc = ""
          /\ ToU32(SubSeq(Last(tx').val, 1, 4)) = Len(Last(tx').val)
     /\ (obj = NoObj /\ obj' # NoObj /\ obj'.exc = "") =>
          command_length(obj'.val) = ToU32(SubSeq(rx, 1, 4))]_vars

\* C28: for a PDU p decoded from a frame, pack() returns bytes, and the PDU
\* decoded from those bytes packs to the same bytes:
\* encode(decode(encode(p))) = encode(p).
C28_RoundTrip ==
  [][(obj # NoObj /\ obj.exc = "" /\ rx # << >> /\ Len(tx') = Len(tx) + 1) =>
        /\ Last(tx').exc = ""
        /\ Len(tx') = 2 => tx'[2] = tx'[1]]_vars

\* ------------------------------------------------- writes on a connection
\* Connection.send with the header and the body of the frame written by two
\* calls of write, the drain between them.
writes_header_then_body(pdu) ==
  <<[pdu |-> pdu, part |-> "header"], [pdu |-> pdu, part |-> "body"]>>

\* Connection.send: the calls of StreamWriter.write it makes for a PDU, each
\* followed by an await.  It makes one, with all the bytes pack() returned,
\* and awaits drain after it.
writes(pdu) == <<[pdu |-> pdu, part |-> "whole"]>>

\* The handler of c awaits nothing it has started: no send of its own, no
\* task of a fan-out.
Idle(c) == \A t \in writing : t.by # c

\* The handler of c answers a request on its connection with Connection.send:
\* up to the await of drain.
Respond(c) ==
  /\ c \in inputs.conns
  /\ Idle(c)
  /\ nreq[c] < inputs.reqs[c]
  /\ NPdus < inputs.pdus
  /\ LET pdu == Pdu("enquire_link_resp", COMMAND_STATUS_ESME_ROK, nreq[c] + 1, ReqId(c))
     IN  /\ stream' = [stream EXCEPT ![c] = Append(@, Head(writes(pdu)))]
         /\ writing' = writing \cup {[by |-> c, on |-> c, rest |-> Tail(writes(pdu))]}
  /\ nreq' = [nreq EXCEPT ![c] = @ + 1]
  /\ UNCHANGED <<config, stopped, bound_with, last_used_worker, st, worker, mode, client, last_seqnum, pc,
                 cur, pending, clients, sent, bus, now, deliver_log, issued, authed,
                 last_read, outcome, rx, obj, tx, relay>>

\* Connection.send_to_rcv in the handler of c: asyncio.gather makes a task of
\* send_new_seqnum for every receiver, which the other connections are; none
\* has run yet.
FanOut(c) ==
  /\ c \in inputs.conns
  /\ Idle(c)
  /\ nreq[c] < inputs.reqs[c]
  /\ NPdus < inputs.pdus
  /\ writing' = writing \cup
       {[by |-> c, on |-> r, rest |-> writes(DeliverSm(ReqId(c), NoReceipt))] :
          r \in inputs.conns \ {c}}
  /\ nreq' = [nreq EXCEPT ![c] = @ + 1]
  /\ UNCHANGED <<config, stopped, bound_with, last_used_worker, st, worker, mode, client, last_seqnum, pc,
                 cur, pending, clients, sent, bus, now, deliver_log, issued, authed,
                 last_read, outcome, rx, obj, tx, stream, relay>>

\* The event loop resumes a send: it writes what comes next and awaits drain
\* again, or, with nothing left to write, returns.
Resume(t) ==
  /\ t \in writing
  /\ IF t.rest = << >>
     THEN /\ writing' = writing \ {t}
          /\ UNCHANGED stream
     ELSE /\ stream' = [stream EXCEPT ![t.on] = Append(@, Head(t.rest))]
          /\ writing' = (writing \ {t}) \cup {[t EXCEPT !.rest = Tail(@)]}
  /\ UNCHANGED <<config, stopped, bound_with, last_used_worker, st, worker, mode, client, last_seqnum, pc,
                 cur, pending, clients, sent, bus, now, nreq, deliver_log, issued, authed,
                 last_read, outcome, rx, obj, tx, relay>>

\* All connections but one, with MaxPdus sends among them.
WireInputs == [LinkInputs EXCEPT !.pdus = MaxPdus]

\* Handlers that answer requests and fan receipts out, on connections that
\* are all receivers of one user.
InitWire ==
  /\ inputs = WireInputs
  /\ workers_count = 1
  /\ incoming_queue = [w \in {0} |-> FALSE]
  /\ sub_incoming = [w \in {0} |-> {}]
  /\ clients = [w \in {0} |-> << >>]
  /\ queue = [p \in {0} |-> [s \in {0} |-> << >>]]
  /\ InitCommon
  /\ InitApart

NextWire ==
  \/ \E c \in Conns : Respond(c)
  \/ \E c \in Conns : FanOut(c)
  \/ \E t \in writing : Resume(t)

SpecWire == InitWire /\ [][NextWire]_vars

\* C23: the bytes of two PDUs written to one connection never interleave:
\* whatever sends are under way on it, of its own handler and of the fan-out
\* tasks of other handlers, what has been written to the connection is a
\* sequence of whole frames; a frame that is written in parts has its parts
\* next to each other.
C23_WholeFrames ==
  \A r \in Conns : \A i \in DOMAIN stream[r] :
     \/ stream[r][i].part = "whole"
     \/ /\ stream[r][i].part = "header"
        /\ i < Len(stream[r]) =>
              (stream[r][i + 1].part = "body" /\ stream[r][i + 1].pdu = stream[r][i].pdu)
     \/ /\ stream[r][i].part = "body"
        /\ i > 1
        /\ stream[r][i - 1].part = "header"
        /\ stream[r][i - 1].pdu = stream[r][i].pdu

\* The receipt of another handler's fan-out was written to a connection
\* while the send of that connection's own response had not returned.
C23_Witness ==
  \E r \in Conns, t \in writing :
    /\ t.by = r /\ t.on = r
    /\ Len(stream[r]) = 2
    /\ stream[r][1].pdu.command = "enquire_link_resp" /\ stream[r][1].pdu.req[1] = r
    /\ stream[r][2].pdu.command = "deliver_sm" /\ stream[r][2].pdu.req[1] # r

\* ------------------------------------------------- the relay of the master
\* recv_forwarding without the close of the worker's socket.
recv_forwarding_no_close(rl) ==
  IF rl.up > 0 THEN [rl EXCEPT !.up = 0]
  ELSE [rl EXCEPT !.recv_loop = "done"]

\* One turn of the loop of recv_forwarding when r.read has returned: a buffer
\* of the client is written to the worker; on an empty buffer, the end of the
\* stream, the worker's socket is closed and the loop left.
recv_forwarding(rl) ==
  IF rl.up > 0 THEN [rl EXCEPT !.up = 0]
  ELSE [rl EXCEPT !.worker_w = "closed", !.recv_loop = "done"]

\* One turn of the loop of send_forwarding when worker_r.read has returned.
send_forwarding(rl) ==
  IF rl.down > 0 THEN [rl EXCEPT !.down = 0]
  ELSE [rl EXCEPT !.w = "closed", !.send_loop = "done"]

\* StreamReader.read on a socket returns: there are bytes, or the stream has
\* ended, because the peer has closed its side or because the transport was
\* closed here (connection_lost feeds the end of the stream to the reader).
client_readable(rl) == rl.up > 0 \/ rl.client_eof \/ rl.w = "closed"
worker_readable(rl) == rl.down > 0 \/ rl.worker_eof \/ rl.worker_w = "closed"

\* The client sends bytes, or closes its side of the connection.
ClientSends(c) ==
  /\ st[c] = "open"
  /\ ~relay[c].client_eof /\ relay[c].w = "open" /\ relay[c].up = 0
  /\ relay' = [relay EXCEPT ![c].up = 1]
  /\ UNCHANGED <<config, stopped, bound_with, last_used_worker, st, worker, mode, client, last_seqnum, pc,
                 cur, pending, clients, sent, bus, now, nreq, deliver_log, issued, authed,
                 last_read, outcome, rx, obj, tx, stream, writing>>

ClientEof(c) ==
  /\ st[c] = "open"
  /\ ~relay[c].client_eof
  /\ relay' = [relay EXCEPT ![c].client_eof = TRUE]
  /\ UNCHANGED <<config, stopped, bound_with, last_used_worker, st, worker, mode, client, last_seqnum, pc,
                 cur, pending, clients, sent, bus, now, nreq, deliver_log, issued, authed,
                 last_read, outcome, rx, obj, tx, stream, writing>>

\* The worker sends bytes, or closes its side of the connection.
WorkerSends(c) ==
  /\ st[c] = "open"
  /\ ~relay[c].worker_eof /\ relay[c].worker_w = "open" /\ relay[c].down = 0
  /\ relay' = [relay EXCEPT ![c].down = 1]
  /\ UNCHANGED <<config, stopped, bound_with, last_used_worker, st, worker, mode, client, last_seqnum, pc,
                 cur, pending, clients, sent, bus, now, nreq, deliver_log, issued, authed,
                 last_read, outcome, rx, obj, tx, stream, writing>>

WorkerEof(c) ==
  /\ st[c] = "open"
  /\ ~relay[c].worker_eof
  /\ relay' = [relay EXCEPT ![c].worker_eof = TRUE]
  /\ UNCHANGED <<config, stopped, bound_with, last_used_worker, st, worker, mode, client, last_seqnum, pc,
                 cur, pending, clients, sent, bus, now, nreq, deliver_log, issued, authed,
                 last_read, outcome, rx, obj, tx, stream, writing>>

\* MasterServer._dispatch_connection, recv_forwarding: its read returns.
RecvForwarding(c) ==
  /\ st[c] = "open"
  /\ relay[c].recv_loop = "running"
  /\ client_readable(relay[c])
  /\ relay' = [relay EXCEPT ![c] = recv_forwarding(@)]
  /\ UNCHANGED <<config, stopped, bound_with, last_used_worker, st, worker, mode, client, last_seqnum, pc,
                 cur, pending, clients, sent, bus, now, nreq, deliver_log, issued, authed,
                 last_read, outcome, rx, obj, tx, stream, writing>>

\* MasterServer._dispatch_connection, send_forwarding: its read returns.
SendForwarding(c) ==
  /\ st[c] = "open"
  /\ relay[c].send_loop = "running"
  /\ worker_readable(relay[c])
  /\ relay' = [relay EXCEPT ![c] = send_forwarding(@)]
  /\ UNCHANGED <<config, stopped, bound_with, last_used_worker, st, worker, mode, client, last_seqnum, pc,
                 cur, pending, clients, sent, bus, now, nreq, deliver_log, issued, authed,
                 last_read, outcome, rx, obj, tx, stream, writing>>

\* All connections but one come to the master.
RelayInputs == [ClusterInputs EXCEPT !.conns = 1..(MaxConns - 1)]

InitRelay ==
  /\ inputs = RelayInputs
  /\ workers_count = WORKERS_COUNT
  /\ incoming_queue = [w \in 0..(WORKERS_COUNT - 1) |-> TRUE]
  /\ sub_incoming = [w \in 0..(WORKERS_COUNT - 1) |-> _all_queue_urls]
  /\ clients = [w \in 0..(WORKERS_COUNT - 1) |-> << >>]
  /\ queue = [p \in 0..(WORKERS_COUNT - 1) |-> [s \in 0..(WORKERS_COUNT - 1) |-> << >>]]
  /\ InitCommon
  /\ InitApart

NextRelay ==
  \/ \E c \in Conns : MasterAccept(c)
  \/ \E c \in Conns : ClientSends(c)
  \/ \E c \in Conns : ClientEof(c)
  \/ \E c \in Conns : WorkerSends(c)
  \/ \E c \in Conns : WorkerEof(c)
  \/ \E c \in Conns : RecvForwarding(c)
  \/ \E c \in Conns : SendForwarding(c)

\* The event loop runs a coroutine whose await has returned: the two loops
\* of a relay are not left waiting with something to read.
SpecRelay ==
  /\ InitRelay
  /\ [][NextRelay]_vars
  /\ \A c \in Conns : WF_vars(RecvForwarding(c)) /\ WF_vars(SendForwarding(c))

\* Both sockets of the relay of c are closed and both its loops are over.
RelayClosed(c) ==
  /\ relay[c].w = "closed" /\ relay[c].worker_w = "closed"
  /\ relay[c].recv_loop = "done" /\ relay[c].send_loop = "done"

\* C30: when the client or the worker has closed its side of a relayed
\* connection, the relay eventually has closed both the client's socket and
\* the worker's socket and has left both forwarding loops.
C30_BothSidesClosed ==
  \A c \in Conns :
    (relay[c].client_eof \/ relay[c].worker_eof) ~> RelayClosed(c)

\* The client has closed its side, the worker has not, and the relay has
\* closed both sockets and left both loops.
C30_Witness ==
  \E c \in Conns :
    /\ relay[c].client_eof /\ ~relay[c].worker_eof
    /\ RelayClosed(c)

\* ------------------------------------------- registry and connection fields
\* C34: the registry and the fields of the connections agree.  A connection
\* is in the connection set of a session exactly when its client is that
\* session, on the server that owns the connection; its mode is UNBOUND
\* exactly when its client is None; so a connection of another mode is a
\* member of the session it points to, and of no other.
C34_RegistryAgreesWithConnections ==
  \A c \in Conns :
    /\ (mode[c] = "UNBOUND") <=> (client[c] = None)
    /\ \A w \in Workers :
         \A sid \in DOMAIN clients[w] :
           (c \in clients[w][sid].connections) <=> (worker[c] = w /\ client[c] = sid)
    /\ client[c] # None =>
         /\ client[c] \in DOMAIN clients[worker[c]]
         /\ c \in clients[worker[c]][client[c]].connections

\* A connection that was bound to one user has bound to the other, whose
\* session holds it together with a second connection; the session of the
\* first user is gone.
C34_Witness ==
  \E c \in Conns, d \in Conns :
    /\ c # d
    /\ Len(sent[c]) = 2
    /\ \A i \in 1..2 : /\ sent[c][i].command \in BindResps
                        /\ sent[c][i].command_status = COMMAND_STATUS_ESME_ROK
    /\ sent[c][1].system_id # sent[c][2].system_id
    /\ mode[c] # "UNBOUND" /\ mode[d] # "UNBOUND"
    /\ client[c] = sent[c][2].system_id
    /\ client[d] = client[c]
    /\ clients[worker[c]][client[c]].connections = {c, d}
    /\ sent[c][1].system_id \notin DOMAIN clients[worker[c]]

C32_DefaultValidityPeriod ==
  [][\A c \in Conns :
       (/\ Reads(c, "submit_sm")
        /\ mode[c] \in {"TRANSMITTER", "TRANSCEIVER"}
        /\ mode_accepted(last_read'[c].esm_class)) =>
          /\ pc'[c] = "deliver"
          /\ cur'[c].sm_validity_period = now + DEFAULT_VALIDITY_PERIOD]_vars

\* --------------------------------------------------- one response a request
\* The PDUs on connection r that answer the k-th request of connection c.
ResponsesTo(c, k, r) ==
  {i \in DOMAIN sent[r] :
     sent[r][i].req = <<c, k>> /\ sent[r][i].command # "deliver_sm"}

\* C39: every request that was decoded is answered with exactly one response,
\* on the connection it arrived on and with its sequence_number: when the
\* handler of an open connection is back at reading, each request it has read
\* has one response on the connection, under the request's sequence number
\* (the k-th request of a client carries the sequence number k), and none on
\* any other connection.
C39_OneResponsePerRequest ==
  \A c \in Conns :
    (st[c] = "open" /\ pc[c] = "read") =>
      \A k \in 1..nreq[c] :
        /\ Cardinality(ResponsesTo(c, k, c)) = 1
        /\ \A i \in ResponsesTo(c, k, c) : sent[c][i].sequence_number = k
        /\ \A r \in Conns \ {c} : ResponsesTo(c, k, r) = {}

\* ---------------------------------------------------------- the credentials
\* One user's connections, all but one of MaxConns, with one request more
\* each: they bind as transmitters with one of two passwords, which the
\* provider accepts, and submit messages.
CredInputs ==
  [conns |-> 1..(MaxConns - 1), reqs |-> [c \in Conns |-> Reqs[c] + 1],
   pdus |-> MaxPdus + 1,
   binds |-> [c \in Conns |-> {"bind_transmitter"} \X {"mtc"}],
   passwords |-> {"pwd", "other"}, is_auth |-> {TRUE}, submitters |-> 1..(MaxConns - 1),
   esm_class |-> {0}, registered_delivery |-> {0},
   validity_period |-> {""}, status |-> {"OK"}]

InitCred ==
  /\ inputs = CredInputs
  /\ workers_count = 1
  /\ incoming_queue = [w \in {0} |-> FALSE]
  /\ sub_incoming = [w \in {0} |-> {}]
  /\ clients = [w \in {0} |-> << >>]
  /\ queue = [p \in {0} |-> [s \in {0} |-> << >>]]
  /\ InitCommon
  /\ InitApart

NextCred ==
  \/ \E c \in Conns : Connect(c)
  \/ \E c \in Conns : BindRequest(c)
  \/ \E c \in Conns : AuthReturn(c)
  \/ \E c \in Conns : Unbind(c)
  \/ \E c \in Conns : SubmitRejected(c)
  \/ \E c \in Conns : Submit(c)
  \/ \E c \in Conns : DeliverReturn(c)
  \/ \E c \in Conns : Disconnect(c)

SpecCred == InitCred /\ [][NextCred]_vars

\* The session of sid on worker w is a new Client object after this step:
\* there was none, or its only connection has bound again, which removes the
\* emptied session before the bind looks for one.
Created(w, sid) ==
  \/ sid \notin DOMAIN clients[w]
  \/ \E c \in Conns :
       /\ AuthReturns(c) /\ authed'[c] /\ worker[c] = w
       /\ clients[w][sid].connections = {c}

\* C36: the credentials handed to the provider are those of the session.
\* A session gets its password from the bind that creates it; as long as
\* the session is in the registry no later bind changes the password; and
\* the ShortMessage of every submission carries the system_id and the
\* password of the session of the submitting connection, whatever password
\* that connection has bound with.
C36_SessionCredentials ==
  [][/\ \A w \in Workers :
          \A sid \in DOMAIN clients'[w] :
            IF ~Created(w, sid)
            THEN clients'[w][sid].password = clients[w][sid].password
            ELSE \E c \in Conns :
                   /\ AuthReturns(c) /\ worker[c] = w
                   /\ cur[c].system_id = sid
                   /\ clients'[w][sid].password = cur[c].password
     /\ \A c \in Conns :
          (pc[c] = "read" /\ pc'[c] = "deliver") =>
             /\ client[c] \in DOMAIN clients[worker[c]]
             /\ cur'[c].sm.system_id = client[c]
             /\ cur'[c].sm.password = clients[worker[c]][client[c]].password]_vars

\* A connection that has bound with another password than the one of the
\* session it joined has submitted a message: the provider is given the
\* password of the session.
C36_Witness ==
  \E c \in Conns, d \in Conns :
    /\ c # d
    /\ mode[c] # "UNBOUND" /\ mode[d] # "UNBOUND"
    /\ client[c] = client[d]
    /\ bound_with[c] # bound_with[d]
    /\ pc[d] = "deliver"
    /\ cur[d].sm.password = bound_with[c]
    /\ cur[d].sm.password # bound_with[d]
    /\ clients[worker[d]][client[d]].password = bound_with[c]

\* ------------------------------------------------------------- Server.stop
\* Server.stop, its callback on the event loop: the listening server is
\* closed and every task of the loop cancelled.  Each handler is at an await;
\* the CancelledError is raised there and Server._on_client_connected decides
\* what becomes of it.  The send_new_seqnum tasks of a fan-out are cancelled
\* as well.
Stop ==
  /\ ~stopped
  /\ stopped' = TRUE
  /\ IF on_exception("CancelledError") = "unbind"
     THEN /\ st' = [c \in Conns |-> IF st[c] = "open" THEN "closed" ELSE st[c]]
          /\ mode' = [c \in Conns |-> "UNBOUND"]
          /\ client' = [c \in Conns |-> None]
          /\ clients' = [w \in Workers |-> << >>]
          /\ UNCHANGED pc
     ELSE /\ pc' = [c \in Conns |-> IF st[c] = "open" THEN "crashed" ELSE pc[c]]
          /\ UNCHANGED <<st, mode, client, clients>>
  /\ pending' = [c \in Conns |-> {}]
  /\ UNCHANGED <<config, rx, obj, tx, stream, writing, relay, bound_with, last_used_worker,
                 worker, last_seqnum, cur, sent, bus, now, nreq, deliver_log, issued, authed,
                 last_read, outcome>>

\* A stand-alone server with one user's connections that is stopped at some
\* moment.
NextStop ==
  \/ \E c \in Conns : Connect(c)
  \/ \E c \in Conns : BindRequest(c)
  \/ \E c \in Conns : AuthReturn(c)
  \/ \E c \in Conns : Unbind(c)
  \/ \E c \in Conns : Disconnect(c)
  \/ Stop

SpecStop == InitLink /\ [][NextStop]_vars

\* C31: once Server.stop has run and the handlers are cancelled, no socket
\* of a connection is open, every connection is unbound and no session is
\* left in the registry.
C31_StopClosesEverything ==
  stopped =>
    /\ \A c \in Conns : st[c] # "open" /\ mode[c] = "UNBOUND" /\ client[c] = None
    /\ \A w \in Workers : DOMAIN clients[w] = {}

\* ------------------------------------------------------ the receipt fan-out
\* One user's connections: the first binds as a transmitter and submits a
\* message that asks for the receipt, the others bind as receivers, unbind,
\* close, or lose their sockets; every delivery succeeds.
FanInputs ==
  [conns |-> Conns, reqs |-> [c \in Conns |-> MaxReqs], pdus |-> MaxPdus + 1,
   binds |-> [c \in Conns |->
                IF c = 1 THEN {"bind_transmitter"} \X {"mtc"}
                ELSE {"bind_receiver"} \X {"mtc"}],
   passwords |-> Passwords, is_auth |-> {TRUE}, submitters |-> {1},
   esm_class |-> {0}, registered_delivery |-> {1},
   validity_period |-> {""}, status |-> {"OK"}]

InitFan ==
  /\ inputs = FanInputs
  /\ workers_count = 1
  /\ incoming_queue = [w \in {0} |-> FALSE]
  /\ sub_incoming = [w \in {0} |-> {}]
  /\ clients = [w \in {0} |-> << >>]
  /\ queue = [p \in {0} |-> [s \in {0} |-> << >>]]
  /\ InitCommon
  /\ InitApart

NextFan ==
  \/ \E c \in Conns : Connect(c)
  \/ \E c \in Conns : BindRequest(c)
  \/ \E c \in Conns : AuthReturn(c)
  \/ \E c \in Conns : Unbind(c)
  \/ \E c \in Conns : SubmitRejected(c)
  \/ \E c \in Conns : Submit(c)
  \/ \E c \in Conns : DeliverReturn(c)
  \/ \E c \in Conns : ReceiptTask(c)
  \/ \E c \in Conns : ReceiptTaskRaises(c)
  \/ \E c \in Conns : ReceiptTaskOrphan(c)
  \/ \E c \in Conns : Disconnect(c)
  \/ \E c \in Conns : ReadError(c)

SpecFan == InitFan /\ [][NextFan]_vars

\* C37: a write of the receipt that fails on one receiver does not end the
\* handler of the submitting connection and does not keep the receipt from
\* the other receivers: after the failed task the handler is still in the
\* fan-out or reading its next PDU, its connection is bound as before, and
\* the tasks of the other receivers are still to run.
C37_FanOutSurvivesFailedWrite ==
  [][\A c \in Conns : \A r \in pending[c] :
       (pc[c] = "fanout" /\ lost(r) /\ r \notin pending'[c]) =>
          /\ pc'[c] \in {"fanout", "read"}
          /\ mode'[c] = mode[c] /\ client'[c] = client[c]
          /\ pending'[c] = pending[c] \ {r}]_vars

\* The receivers of the session of c whose sockets are open.
OpenReceivers(c) ==
  {r \in Conns : /\ st[r] = "open"
                 /\ worker[r] = worker[c]
                 /\ client[r] = client[c]
                 /\ mode[r] \in {"RECEIVER", "TRANSCEIVER"}}

\* C38: the receipt goes to the receivers of the session at the moment it is
\* emitted, when provider.deliver has returned: the tasks of the fan-out are
\* those of the connections that are then bound to the session as receivers
\* and connected, whether they were when the submit_sm arrived or not; a
\* connection that has unbound or disconnected in between has no task, so
\* nothing is written to it and nothing fails.
C38_ReceiversAtEmission ==
  [][\A c \in Conns :
       (pc[c] = "deliver" /\ pc'[c] # "deliver" /\ outcome'[c].req = cur[c].req
        /\ outcome'[c].emitted) =>
          pending'[c] = OpenReceivers(c)]_vars

\* ---------------------------------------------------- Connection.send, bytes
\* Connection.send with pack(): the frames it writes and the exception that
\* leaves it, "" if none does.  Only parse.PackingError is caught; for that
\* the generic_nack with the sequence number of the PDU is sent in its place
\* by a second call of send, unless the PDU is a generic_nack itself, which
\* raises the error again.
send_packed(pdu) ==
  LET bs == pack(pdu)
      nack == [command |-> "generic_nack",
               command_status |-> COMMAND_STATUS_ESME_RUNKNOWNERR,
               sequence_number |-> pdu.sequence_number]
      nack_bs == pack(nack)
  IN  IF bs.exc = "" THEN [written |-> <<bs.val>>, raised |-> ""]
      ELSE IF bs.exc # "PackingError" THEN [written |-> << >>, raised |-> bs.exc]
      ELSE IF pdu.command = "generic_nack" THEN [written |-> << >>, raised |-> bs.exc]
      ELSE IF nack_bs.exc = "" THEN [written |-> <<nack_bs.val>>, raised |-> ""]
      ELSE [written |-> << >>, raised |-> nack_bs.exc]

\* Connection.send is called with the PDU held.
Send ==
  /\ obj # NoObj
  /\ obj.exc = ""
  /\ tx = << >>
  /\ tx' = <<send_packed(obj.val)>>
  /\ UNCHANGED <<config, stopped, bound_with, last_used_worker, st, worker, mode, client,
                 last_seqnum, pc, cur, pending, clients, sent, bus, now, nreq, deliver_log,
                 issued, authed, last_read, outcome, rx, obj, stream, writing, relay>>

\* A connection with a PDU of the server to send.
InitSend ==
  /\ inputs = BindInputs
  /\ workers_count = 1
  /\ incoming_queue = [w \in {0} |-> FALSE]
  /\ sub_incoming = [w \in {0} |-> {}]
  /\ clients = [w \in {0} |-> << >>]
  /\ queue = [p \in {0} |-> [s \in {0} |-> << >>]]
  /\ InitCommon
  /\ rx = << >>
  /\ obj \in {Ok(p) : p \in ServerPdus}
  /\ tx = << >>
  /\ stream = [c \in Conns |-> << >>]
  /\ writing = {}
  /\ relay = [c \in Conns |-> NoRelay]
  /\ stopped = FALSE
  /\ bound_with = [c \in Conns |-> None]

NextSend ==
  \/ Send

SpecSend == InitSend /\ [][NextSend]_vars

\* C33: when the encoding of a PDU fails, Connection.send writes in its place
\* a generic_nack of status ESME_RUNKNOWNERR with the sequence_number of the
\* PDU, or, when that cannot be encoded either, writes nothing; in neither
\* case does an exception leave send.
C33_EncodeFailureNacked ==
  [][(obj # NoObj /\ obj.exc = "" /\ tx = << >> /\ tx' # << >>
      /\ pack(obj.val).exc # "") =>
        /\ tx'[1].raised = ""
        /\ tx'[1].written # << >> =>
             LET nack == unpack_pdu(tx'[1].written[1])
             IN  /\ Len(tx'[1].written) = 1
                 /\ nack.exc = ""
                 /\ nack.val.command = "generic_nack"
                 /\ nack.val.command_status = COMMAND_STATUS_ESME_RUNKNOWNERR
                 /\ nack.val.sequence_number = obj.val.sequence_number]_vars

\* -------------------------------------------- the counter at its full width
\* The integers of Python have no width; the sequence_number of the header
\* has 32 bits.  To follow last_seqnum up to 2^32 and beyond, where the model
\* checker's own integers end at 2^31 - 1, a number n is held here as its two
\* halves, n = hi * 2^16 + lo with lo < 2^16.
Wide(hi, lo) == [hi |-> hi, lo |-> lo]

\* struct.pack("!I", n) and struct.unpack("!I", bs) at full width: pack
\* raises struct.error for an n above 0xFFFFFFFF, that is with hi >= 2^16.
struct_pack_I(n) ==
  IF n.hi >= 65536 THEN Raise("struct.error")
  ELSE Ok(<<n.hi \div 256, n.hi % 256, n.lo \div 256, n.lo % 256>>)
struct_unpack_I(bs) == Wide(bs[1] * 256 + bs[2], bs[3] * 256 + bs[4])

\* The sequence_number fields of the frames the clients send: small ones and
\* the two largest of the field.
WideSeqs == {<<0, 0, 0, 1>>, <<255, 255, 255, 254>>, <<255, 255, 255, 255>>}

\* Connection.read: last_seqnum after a PDU with the sequence number sn.
read_last_seqnum(last, sn) ==
  IF sn.hi > last.hi \/ (sn.hi = last.hi /\ sn.lo > last.lo) THEN sn ELSE last

\* Connection.send_new_seqnum for a PDU without a body (a generic_nack that
\* Dispatcher.receive hands to send_to_rcv): last_seqnum after it, and what
\* pack() makes of the PDU, whose header PDU._pack_header packs.
send_new_seqnum_packed(last, status) ==
  LET n == IF last.lo = 65535 THEN Wide(last.hi + 1, 0) ELSE Wide(last.hi, last.lo + 1)
      seq == struct_pack_I(n)
  IN  [last_seqnum |-> n,
       packed |-> IF seq.exc # "" THEN seq
                  ELSE Ok(U32(16) \o command_id("generic_nack") \o U32(status) \o seq.val)]

\* A client sends a PDU; Connection.read decodes its header.
CounterRead(c) ==
  /\ c \in inputs.conns
  /\ nreq[c] < inputs.reqs[c]
  /\ NPdus < inputs.pdus
  /\ \E bs \in WideSeqs :
       last_seqnum' = [last_seqnum EXCEPT ![c] = read_last_seqnum(@, struct_unpack_I(bs))]
  /\ nreq' = [nreq EXCEPT ![c] = @ + 1]
  /\ UNCHANGED <<config, apart, last_used_worker, st, worker, mode, client, pc, cur, pending,
                 clients, sent, bus, now, deliver_log, issued, authed, last_read, outcome>>

\* The server sends a PDU of its own to the connection.
CounterSend(c) ==
  /\ c \in inputs.conns
  /\ Len(tx) < inputs.pdus
  /\ LET r == send_new_seqnum_packed(last_seqnum[c], COMMAND_STATUS_ESME_RUNKNOWNERR)
     IN  /\ last_seqnum' = [last_seqnum EXCEPT ![c] = r.last_seqnum]
         /\ tx' = Append(tx, r.packed)
  /\ UNCHANGED <<config, stopped, bound_with, last_used_worker, st, worker, mode, client, pc,
                 cur, pending, clients, sent, bus, now, nreq, deliver_log, issued, authed,
                 last_read, outcome, rx, obj, stream, writing, relay>>

\* Connections with the counter at 0, as Connection.__init__ leaves it.
InitCounter ==
  /\ inputs = LinkInputs
  /\ workers_count = 1
  /\ incoming_queue = [w \in {0} |-> FALSE]
  /\ sub_incoming = [w \in {0} |-> {}]
  /\ clients = [w \in {0} |-> << >>]
  /\ queue = [p \in {0} |-> [s \in {0} |-> << >>]]
  /\ last_used_worker = -1
  /\ st = [c \in Conns |-> "open"]
  /\ worker = [c \in Conns |-> 0]
  /\ mode = [c \in Conns |-> "UNBOUND"]
  /\ client = [c \in Conns |-> None]
  /\ last_seqnum = [c \in Conns |-> Wide(0, 0)]
  /\ pc = [c \in Conns |-> "read"]
  /\ cur = [c \in Conns |-> NoPdu]
  /\ pending = [c \in Conns |-> {}]
  /\ sent = [c \in Conns |-> << >>]
  /\ now = 0
  /\ nreq = [c \in Conns |-> 0]
  /\ deliver_log = {}
  /\ issued = {}
  /\ handled = {}
  /\ authed = [c \in Conns |-> FALSE]
  /\ last_read = [c \in Conns |-> Header(NoPdu.command, 0)]
  /\ outcome = [c \in Conns |-> NoOutcome]
  /\ InitApart

NextCounter ==
  \/ \E c \in Conns : CounterRead(c)
  \/ \E c \in Conns : CounterSend(c)

SpecCounter == InitCounter /\ [][NextCounter]_vars

\* C40: the counter of a connection stays within the 32 bits of the
\* sequence_number field, whatever sequence numbers the client has sent and
\* however many PDUs the server has originated, and every PDU that was given
\* a fresh sequence number was encoded.
C40_CounterFitsField ==
  /\ \A c \in Conns : last_seqnum[c].hi < 65536
  /\ \A i \in DOMAIN tx : tx[i].exc = ""

====
